---- MODULE Spec2Model ----
(***************************************************************************)
(* Orchestration core of the ShiningCode agent: the tool registry and its  *)
(* dispatcher (tools/index.ts), the Plan/Act mode gate (plan-act.ts), the  *)
(* agent loop (ollama-client.ts) and the MCP JSON-RPC bridge               *)
(* (mcp-client.ts).                                                        *)
(*                                                                         *)
(* The specifications share the variables:                                 *)
(*   SpecDispatch  executeTool called directly, with the mode commands and *)
(*                 registerTool running around it;                         *)
(*   SpecChat      OllamaClient.chat driving executeTool, with the mode    *)
(*                 commands arriving on the readline interface meanwhile;  *)
(*   SpecMcp       one provider connection: sendJsonRpc, the provider's    *)
(*                 stdout stream cut into chunks, the request timers.      *)
(*   SpecBoot      initializeMCP over the configured providers             *)
(*                 (mcp-client.ts);                                        *)
(*   SpecTask      one background command of run_command (run-command.ts); *)
(*   SpecFanout    one parallel_agents call (parallel-agents.ts);          *)
(*   SpecRepo      checkpoints and rollbacks on the git stash              *)
(*                 (git-checkpoint.ts), with edit_file writing a file;     *)
(*   SpecExtract   the tool calls chat() takes from one model response     *)
(*                 (ollama-client.ts, utils.ts);                           *)
(*   SpecAdapter   one call of a tool adapted from an MCP provider         *)
(*                 (mcp-client.ts);                                        *)
(*   SpecGuard     write_file, edit_file and run_command asking for the    *)
(*                 user's approval (confirm.ts and the three tools);       *)
(*   SpecContext   ContextManager.addMessage and its trimming              *)
(*                 (context.ts);                                           *)
(*   SpecScan      extractBalancedJsonObjects, one pass of its loops at a  *)
(*                 time (utils.ts).                                        *)
(***************************************************************************)
EXTENDS Integers, Sequences, FiniteSets, TLC

VARIABLES
    mode,          \* plan-act.ts: _currentMode
    tools,         \* tools/index.ts: keys of the tools Map
    exec,          \* the executeTool call in flight (or the last one)
    pc,            \* chat(): position of the control flow
    iteration,     \* chat(): let iteration
    modelCalls,    \* number of this.client.chat() calls made by chat()
    toolCalls,     \* chat(): let toolCalls, the invocations of this turn
    idx,           \* chat(): position of the for-of loop over toolCalls
    turnMessages,  \* chat(): the messages pushed on currentMessages since
                   \* the last model call (the tail of currentMessages)
    chatResult,    \* how chat() settled
    conn,          \* mcp-client.ts: the MCPConnection and its registry entry
    requests,      \* mcp-client.ts: one record per sendJsonRpc promise
    wire,          \* bytes the provider wrote that stdout has not delivered
    nLines,        \* number of response lines the provider has written
    boot,          \* mcp-client.ts: initializeMCP in progress, and the host
    task,          \* run-command.ts: one background task and its process
    fanout,        \* parallel-agents.ts: one parallel_agents call
    repo,          \* git-checkpoint.ts: the working tree and the stash list
    extract,       \* ollama-client.ts: one model response and the tool
                   \* calls chat() takes from it
    session,       \* handleChat: what the context keeps of the exchange, and
                   \* the error chat() threw
    adapter,       \* mcp-client.ts: one call of an adapted tool mcp_P_T
    guard,         \* confirm.ts: _autoApprove, and one call of a tool that
                   \* asks for approval
    context,       \* context.ts: ContextManager.messages and maxTokens
    scan           \* utils.ts: one run of extractBalancedJsonObjects, pass
                   \* by pass

dispatchVars == <<mode, tools, exec>>
chatVars == <<pc, iteration, modelCalls, toolCalls, idx, turnMessages,
              chatResult>>
mcpVars == <<conn, requests, wire, nLines>>
unitVars == <<guard, context, scan>>
turnVars == <<extract, session, adapter, unitVars>>
vars == <<dispatchVars, chatVars, mcpVars, boot, task, fanout, repo,
          turnVars>>

\* What the actions of one component leave alone in the other components.
outsideDispatch == <<chatVars, mcpVars, boot, task, fanout, repo,
                      turnVars>>
outsideChat == <<mcpVars, boot, task, fanout, repo,
                  turnVars>>
outsideMcp == <<dispatchVars, chatVars, boot, task, fanout, repo,
                 turnVars>>
outsideBoot == <<dispatchVars, chatVars, mcpVars, task, fanout, repo,
                  turnVars>>
outsideTask == <<dispatchVars, chatVars, mcpVars, boot, fanout, repo,
                  turnVars>>
outsideFanout == <<dispatchVars, chatVars, mcpVars, boot, task, repo,
                    turnVars>>
outsideRepo == <<dispatchVars, chatVars, mcpVars, boot, task, fanout,
                  turnVars>>
outsideExtract == <<dispatchVars, chatVars, mcpVars, boot, task, fanout,
                    repo, session, adapter, unitVars>>
\* What chat() and handleChat leave alone when they write the session.
outsideSession == <<mcpVars, boot, task, fanout, repo, extract, adapter,
                    unitVars>>
outsideAdapter == <<dispatchVars, chatVars, mcpVars, boot, task, fanout,
                    repo, extract, session, unitVars>>
outsideUnits == <<dispatchVars, chatVars, mcpVars, boot, task, fanout, repo,
                  extract, session, adapter>>

----------------------------------------------------------------------------
(* Bounds of the model *)

\* Most invocations the model backend returns in one turn.
MaxCalls == 2

\* Most sendJsonRpc calls on the connection.
MaxRequests == 2

\* Most response lines the provider writes.
MaxLines == 2

\* Most providers in the MCP configuration.
MaxProviders == 2

\* Most chunks the streams of a background command deliver.
MaxChunks == 3

\* Most tasks in the arguments of one parallel_agents call.
MaxTasks == 5

\* Most entries on the stash list.
MaxStashes == 2

\* Most pieces the model puts in the text of one response.
MaxPieces == 3

\* Most content blocks in the result of one tools/call.
MaxBlocks == 3

----------------------------------------------------------------------------
(* Program constants *)

MAX_TOOL_ITERATIONS == 25

\* run-command.ts
MAX_OUTPUT_LENGTH == 50000

\* parallel-agents.ts
MAX_CONCURRENT == 4

\* tools/index.ts: the built-in registry.
BuiltinTools ==
    {"read_file", "write_file", "edit_file", "run_command", "search_files",
     "grep_search", "list_directory", "web_fetch", "web_search", "sub_agent",
     "parallel_agents", "task_create", "task_list", "task_get", "task_update",
     "ask_user", "notebook_edit"}

\* A tool discovered on an MCP provider, registered at start-up by the CLI.
McpToolName == "mcp_srv_echo"

\* A name the model may emit that no registration ever adds.
UnknownToolName == "no_such_tool"

ToolNames == BuiltinTools \cup {McpToolName, UnknownToolName}

\* plan-act.ts: tools allowed in Plan mode.
READ_ONLY_TOOLS ==
    {"read_file", "search_files", "grep_search", "list_directory",
     "web_fetch", "web_search", "ask_user", "task_list", "task_get"}

\* Argument values, by what the handlers do with them: a map of the declared
\* shape, or a map whose values are missing or of another type.
ArgKinds == {"wellFormed", "malformed"}

\* Handlers that touch their arguments before their own try block
\* (resolvePath(args.path) in the file tools, the for-of over args.tasks in
\* parallel_agents): with malformed arguments their promise rejects.
UnguardedHandlers ==
    {"read_file", "write_file", "edit_file", "notebook_edit",
     "list_directory", "search_files", "grep_search", "parallel_agents"}

\* Handlers that report success:false without an error field.
ErrorlessFailures == {"parallel_agents"}

----------------------------------------------------------------------------
(* plan-act.ts *)

\* Faulty variant: the gate lets every tool through.
IsToolAllowedAlways(m, name) == TRUE

\* isToolAllowedInCurrentMode(toolName), with _currentMode passed as m.
isToolAllowedInCurrentMode(m, name) ==
    IF m # "plan" THEN TRUE ELSE name \in READ_ONLY_TOOLS

enterPlanMode == mode' = "plan"
enterActMode == mode' = "act"
exitPlanActMode == mode' = "normal"

----------------------------------------------------------------------------
(* tools/index.ts: executeTool *)

\* Faulty variant: every name resolves to a handler.
ToolLookupAny(reg, name) == TRUE

\* tools.get(name) finds a handler.
ToolLookup(reg, name) == name \in reg

\* What tool.execute(args) can settle with.
HandlerOutcomes(name, args) ==
    {"success", "failure"}
        \cup (IF name \in ErrorlessFailures THEN {"failureNoError"} ELSE {})
        \cup (IF name \in UnguardedHandlers /\ args = "malformed"
              THEN {"throws"} ELSE {})

\* The ToolResult of a handler that returned.
HandlerResult(name, outcome) ==
    CASE outcome = "success" ->
            [success |-> TRUE, output |-> <<"output", name>>]
      [] outcome = "failure" ->
            [success |-> FALSE, output |-> <<>>, error |-> <<"handler", name>>]
      [] outcome = "failureNoError" ->
            [success |-> FALSE, output |-> <<"output", name>>]

\* JSON.stringify({ error: result.error, output: result.output }): a key
\* whose value is undefined is left out.
ErrorEnvelope(result) ==
    IF "error" \in DOMAIN result
    THEN [json |-> TRUE, error |-> result.error, output |-> result.output]
    ELSE [json |-> TRUE, output |-> result.output]

\* The string executeTool returns for a ToolResult.
ReturnOf(result) ==
    IF ~result.success THEN ErrorEnvelope(result)
    ELSE [json |-> FALSE, output |-> result.output]

UnknownToolReturn(name) == [json |-> TRUE, error |-> <<"unknownTool", name>>]

ModeDeniedReturn(name, m) ==
    [json |-> TRUE, error |-> <<"notAllowedUseApprove", name, m>>]

NoCall == [phase |-> "none"]

\* executeTool up to its first await: the lookup, the mode check, and the
\* entry into the handler. The record keeps the name and arguments of the
\* call, the mode and the registry membership it met, whether the handler
\* was entered, and the returned string.
ExecEnter(name, args) ==
    LET call == [name |-> name, args |-> args, mode |-> mode,
                 registered |-> name \in tools]
    IN  IF ~ToolLookup(tools, name)
        THEN exec' = call @@ [phase |-> "returned", ran |-> FALSE,
                              result |-> UnknownToolReturn(name)]
        ELSE IF ~isToolAllowedInCurrentMode(mode, name)
        THEN exec' = call @@ [phase |-> "returned", ran |-> FALSE,
                              result |-> ModeDeniedReturn(name, mode)]
        ELSE exec' = call @@ [phase |-> "running", ran |-> TRUE]

\* The handler's promise settles and executeTool finishes: it returns the
\* output or the error envelope; a rejection is not caught and becomes
\* executeTool's own rejection.
ExecSettle(outcome) ==
    /\ exec.phase = "running"
    /\ outcome \in HandlerOutcomes(exec.name, exec.args)
    /\ exec' = IF outcome = "throws"
               THEN [exec EXCEPT !.phase = "threw"]
               ELSE [name |-> exec.name, args |-> exec.args,
                     mode |-> exec.mode, registered |-> exec.registered,
                     phase |-> "returned", ran |-> TRUE,
                     result |-> ReturnOf(HandlerResult(exec.name, outcome))]

----------------------------------------------------------------------------
(* cli.ts: the mode commands of handleCommand. The createCheckpoint and     *)
(* rollbackToLastCheckpoint calls around them act on the working tree and  *)
(* return a boolean that the commands ignore.                              *)

\* /plan
CmdPlan == enterPlanMode /\ UNCHANGED <<tools, exec>>

\* /approve and /act
CmdApprove == enterActMode /\ UNCHANGED <<tools, exec>>

\* /rollback
CmdRollback == exitPlanActMode /\ UNCHANGED <<tools, exec>>

\* cli.ts start(): registerTool for a tool discovered on an MCP provider.
registerTool(name) == tools' = tools \cup {name}

----------------------------------------------------------------------------
(* SpecDispatch: executeTool under every name, argument kind and mode *)

ExecuteToolCall ==
    /\ pc = "idle"
    /\ exec.phase # "running"
    /\ \E name \in ToolNames, args \in ArgKinds : ExecEnter(name, args)
    /\ UNCHANGED <<mode, tools, outsideDispatch>>

ExecuteToolSettle ==
    /\ \E outcome \in {"success", "failure", "failureNoError", "throws"} :
            ExecSettle(outcome)
    /\ UNCHANGED <<mode, tools>>

DispatchSettle == ExecuteToolSettle /\ UNCHANGED outsideDispatch
DispatchPlan == CmdPlan /\ UNCHANGED outsideDispatch
DispatchApprove == CmdApprove /\ UNCHANGED outsideDispatch
DispatchRollback == CmdRollback /\ UNCHANGED outsideDispatch

DispatchRegister ==
    /\ exec.phase # "running"
    /\ registerTool(McpToolName)
    /\ UNCHANGED <<mode, exec, outsideDispatch>>

InitDispatchVars ==
    /\ mode = "normal"
    /\ tools = BuiltinTools
    /\ exec = NoCall

InitChatVars ==
    /\ pc = "idle"
    /\ iteration = 0
    /\ modelCalls = 0
    /\ toolCalls = <<>>
    /\ idx = 0
    /\ turnMessages = <<>>
    /\ chatResult = "none"

InitMcpVars ==
    /\ conn = [requestId |-> 0, alive |-> TRUE, registered |-> TRUE]
    /\ requests = <<>>
    /\ wire = <<>>
    /\ nLines = 0

\* adapter: no adapted tool has been called.
\* context.ts: the history is bounded for the check; the limit of the manager is small
\* enough for a few short messages to pass it. A message is its role and
\* the length of its content (content.length, or the length of
\* JSON.stringify(content) when the content is not a string).
MaxHistory == 6
MaxTokenEstimate == 10
ContentLengths == {2, 10, 20}
Roles == {"user", "assistant"}

\* guard: started without --yes; no tool has asked for approval. auto is
\* _autoApprove as the call found it, effects lists what the call did to
\* the machine, in order.
\* context: a ContextManager just constructed; pushed is the history as
\* the last addMessage had it after the push and before the trimming.
\* scan: the text handed to extractBalancedJsonObjects is still being
\* put together; positions count from 1, so i = 1 is the code's i = 0.
\* extract: the model has not answered yet; the response text is empty.
\* session: no user message yet; history is the tail of context.messages
\* from the last user message on.
InitTurnVars ==
    /\ extract = [pc |-> "compose", pieces |-> <<>>, text |-> <<>>,
                  native |-> <<>>, toolCalls |-> <<>>]
    /\ session = [history |-> <<>>, thrown |-> <<>>, rethrown |-> <<>>]
    /\ adapter = [pc |-> "idle", sent |-> <<>>, answer |-> <<>>,
                  ret |-> <<>>]
    /\ guard = [autoApprove |-> FALSE, auto |-> FALSE, pc |-> "idle",
                tool |-> "none",
                level |-> "low", prompted |-> FALSE, answer |-> <<>>,
                approved |-> FALSE, effects |-> <<>>, ret |-> <<>>]
    /\ context = [messages |-> <<>>, maxTokenEstimate |-> MaxTokenEstimate,
                  op |-> "new", pushed |-> <<>>]
    /\ scan = [pc |-> "compose", pieces |-> 0, text |-> <<>>, i |-> 1,
               start |-> 0, j |-> 0, depth |-> 0, inString |-> FALSE,
               escaped |-> FALSE, results |-> <<>>]

\* git-checkpoint.ts: the files of the project, and the tree of HEAD: file
\* "a" with its committed content, no file "n".
Paths == {"a", "n"}
HeadTree == [p \in Paths |-> IF p = "a" THEN "v0" ELSE "absent"]

\* boot: initializeMCP has not been called. task: no background command
\* has been started; the record is the one execute() creates, outTotal and
\* errTotal count what the streams delivered, timedOut remembers that the
\* timer found the command running, query holds the result of the last
\* run_command call that asked for the status. fanout: no parallel_agents
\* call; late holds the tasks whose runner settled after the timer ended
\* their race, calls what happened in the race of each task.
\* repo: the directory is a repository with a clean tree.
Init ==
    /\ InitDispatchVars /\ InitChatVars /\ InitMcpVars
    /\ boot = [pc |-> "idle", cfg |-> <<>>, i |-> 0, children |-> {},
               connections |-> {}, mcpTools |-> {}, registered |-> {},
               hostAlive |-> TRUE]
    /\ task = [proc |-> "none", timer |-> FALSE, done |-> FALSE,
               exitCode |-> <<>>, stdout |-> <<>>, stderr |-> <<>>,
               outTotal |-> 0, errTotal |-> 0, chunks |-> 0,
               timedOut |-> FALSE, query |-> <<>>]
    /\ fanout = [pc |-> "idle", n |-> 0, entries |-> <<>>, order |-> <<>>,
                 late |-> {}, calls |-> <<>>, ret |-> [settled |-> FALSE]]
    /\ repo = [isRepo |-> TRUE, index |-> HeadTree, tree |-> HeadTree,
               stashes |-> <<>>,
               last |-> [op |-> "none", ret |-> FALSE, cmds |-> {},
                         envFail |-> FALSE, popped |-> <<>>],
               mark |-> [live |-> FALSE, S |-> HeadTree]]
    /\ InitTurnVars

NextDispatch ==
    \/ ExecuteToolCall
    \/ DispatchSettle
    \/ DispatchPlan
    \/ DispatchApprove
    \/ DispatchRollback
    \/ DispatchRegister

SpecDispatch == Init /\ [][NextDispatch]_vars

----------------------------------------------------------------------------
(* ollama-client.ts: OllamaClient.chat *)

\* The invocations the model backend returns, after extraction: a tool of
\* the Plan allow-list whose handler is unguarded, given malformed arguments;
\* a tool outside the allow-list; and a name that is not registered.
ModelInvocations ==
    {[name |-> "read_file", args |-> "malformed"],
     [name |-> "write_file", args |-> "wellFormed"],
     [name |-> UnknownToolName, args |-> "wellFormed"]}

InvocationLists ==
    UNION {[1..n -> ModelInvocations] : n \in 1..MaxCalls}

\* Faulty variant: an off-by-one guard.
LoopGuardInclusive(it) == it <= MAX_TOOL_ITERATIONS

\* while (iteration < MAX_TOOL_ITERATIONS)
LoopGuard(it) == it < MAX_TOOL_ITERATIONS

\* Faulty variant: unshift instead of push.
PushFront(msgs, m) == <<m>> \o msgs

\* currentMessages.push(m)
PushMessage(msgs, m) == Append(msgs, m)

AssistantMsg(calls) == [role |-> "assistant", tool_calls |-> calls]

\* The tool turn; `call` remembers which invocation of the turn it answers.
ToolMsg(content, k) == [role |-> "tool", content |-> content, call |-> k]

\* The turns handleChat adds to the context, and the message chat()
\* returns at the iteration cap.
UserMsg == [role |-> "user"]
FallbackMsg == [role |-> "assistant", fallback |-> TRUE]

\* What this.client.chat() rejects with: the message of the error, word by
\* word. The first is Ollama's error for a model that is not installed.
ModelErrorMessages ==
    {<<"model", "x", "not found">>,
     <<"model", "requires", "more", "system", "memory">>,
     <<"fetch", "failed">>}

\* The catch block of chat(): the message of the error it throws.
Rethrown(errorMsg) ==
    LET includes(w) == \E k \in 1..Len(errorMsg) : errorMsg[k] = w
    IN  IF includes("not found") \/ includes("model")
        THEN <<"model x is missing", "ollama pull x">>
        ELSE errorMsg

\* handleChat: the user message is added to the context and chat() starts
\* on a copy of the messages.
ChatStart ==
    /\ pc \in {"idle", "done"}
    /\ exec.phase # "running"
    /\ pc' = "loop"
    /\ iteration' = 0
    /\ modelCalls' = 0
    /\ toolCalls' = <<>>
    /\ idx' = 0
    /\ turnMessages' = <<>>
    /\ chatResult' = "none"
    /\ session' = [history |-> <<UserMsg>>, thrown |-> <<>>,
                   rethrown |-> <<>>]
    /\ UNCHANGED <<dispatchVars, outsideSession>>

\* One pass of the loop head: iteration++, the model call, and what follows
\* it up to the first tool dispatch.
ModelCallFails ==
    /\ pc = "loop"
    /\ LoopGuard(iteration)
    /\ iteration' = iteration + 1
    /\ modelCalls' = modelCalls + 1
    /\ \E errorMsg \in ModelErrorMessages :
           /\ session' = [session EXCEPT !.thrown = errorMsg,
                                         !.rethrown = Rethrown(errorMsg)]
           /\ chatResult' = IF Rethrown(errorMsg) = errorMsg
                            THEN "transportError" ELSE "modelNotFound"
    /\ pc' = "done"
    /\ UNCHANGED <<toolCalls, idx, turnMessages, dispatchVars,
                   outsideSession>>

ModelCallFinal ==
    /\ pc = "loop"
    /\ LoopGuard(iteration)
    /\ iteration' = iteration + 1
    /\ modelCalls' = modelCalls + 1
    /\ toolCalls' = <<>>
    /\ chatResult' = "final"
    /\ pc' = "done"
    /\ session' = [session EXCEPT
                       !.history = PushMessage(@, AssistantMsg(<<>>))]
    /\ UNCHANGED <<idx, turnMessages, dispatchVars, outsideSession>>

ModelCallTools ==
    /\ pc = "loop"
    /\ LoopGuard(iteration)
    /\ iteration' = iteration + 1
    /\ modelCalls' = modelCalls + 1
    /\ \E calls \in InvocationLists :
        /\ toolCalls' = calls
        /\ turnMessages' = PushMessage(<<>>, AssistantMsg(calls))
    /\ idx' = 1
    /\ pc' = "tools"
    /\ UNCHANGED <<chatResult, dispatchVars, outsideChat>>

\* for (const toolCall of toolCalls): onToolCall, then executeTool is called.
ToolDispatch ==
    /\ pc = "tools"
    /\ idx <= Len(toolCalls)
    /\ ExecEnter(toolCalls[idx].name, toolCalls[idx].args)
    /\ pc' = "await"
    /\ UNCHANGED <<mode, tools, iteration, modelCalls, toolCalls, idx,
                   turnMessages, chatResult, outsideChat>>

ChatSettle ==
    /\ pc = "await"
    /\ ExecuteToolSettle
    /\ UNCHANGED <<chatVars, outsideChat>>

\* await executeTool(...) resumes with the result: the tool turn is pushed.
ToolReturn ==
    /\ pc = "await"
    /\ exec.phase = "returned"
    /\ turnMessages' = PushMessage(turnMessages, ToolMsg(exec.result, idx))
    /\ idx' = idx + 1
    /\ pc' = "tools"
    /\ exec' = NoCall
    /\ UNCHANGED <<iteration, modelCalls, toolCalls, chatResult, mode, tools,
                   outsideChat>>

\* await executeTool(...) resumes with the rejection: chat() has no try
\* block around it and rejects too.
ToolThrows ==
    /\ pc = "await"
    /\ exec.phase = "threw"
    /\ chatResult' = "toolException"
    /\ pc' = "done"
    /\ UNCHANGED <<iteration, modelCalls, toolCalls, idx, turnMessages,
                   dispatchVars, outsideChat>>

\* The for-of loop is exhausted: onToken('\n') and back to the loop head.
TurnEnd ==
    /\ pc = "tools"
    /\ idx > Len(toolCalls)
    /\ pc' = "loop"
    /\ UNCHANGED <<iteration, modelCalls, toolCalls, idx, turnMessages,
                   chatResult, dispatchVars, outsideChat>>

\* The loop guard fails: the fallback message is returned, and handleChat
\* adds it to the context.
LoopExit ==
    /\ pc = "loop"
    /\ ~LoopGuard(iteration)
    /\ chatResult' = "fallback"
    /\ pc' = "done"
    /\ session' = [session EXCEPT !.history = PushMessage(@, FallbackMsg)]
    /\ UNCHANGED <<iteration, modelCalls, toolCalls, idx, turnMessages,
                   dispatchVars, outsideSession>>

\* The mode commands, typed while chat() is suspended or between chats.
ChatPlan == CmdPlan /\ UNCHANGED <<chatVars, outsideChat>>
ChatApprove == CmdApprove /\ UNCHANGED <<chatVars, outsideChat>>
ChatRollback == CmdRollback /\ UNCHANGED <<chatVars, outsideChat>>

NextChat ==
    \/ ChatStart
    \/ ModelCallFails
    \/ ModelCallFinal
    \/ ModelCallTools
    \/ ToolDispatch
    \/ ChatSettle
    \/ ToolReturn
    \/ ToolThrows
    \/ TurnEnd
    \/ LoopExit
    \/ ChatPlan
    \/ ChatApprove
    \/ ChatRollback

SpecChat == Init /\ [][NextChat]_vars

----------------------------------------------------------------------------
(* mcp-client.ts: sendJsonRpc on one provider connection *)

\* The provider's stdout is a stream of tokens. A response line is two
\* tokens, the text up to and including the id and the rest of the object
\* with its newline; a chunk boundary may fall between any two tokens.
LineHead(i) == [part |-> "head", id |-> i]
LineTail(i, e) == [part |-> "tail", for |-> i, error |-> e]
ResponseLine(i, e) == <<LineHead(i), LineTail(i, e)>>

\* Ids the provider may put on a line. It may write a line before the
\* request with that id is sent, or when none is ever sent: such a line
\* matches no pending request.
ProviderIds == 1..MaxRequests

\* responseBuffer.split('\n'): the pieces between newlines, the last one
\* being what follows the last newline; empty pieces are skipped by the loop.
RECURSIVE Segments(_)
Segments(buf) ==
    IF buf = <<>> THEN <<>>
    ELSE LET nls == {k \in 1..Len(buf) : buf[k].part = "tail"}
         IN  IF nls = {} THEN <<buf>>
             ELSE LET k == CHOOSE x \in nls : \A y \in nls : x <= y
                  IN  <<SubSeq(buf, 1, k)>>
                          \o Segments(SubSeq(buf, k + 1, Len(buf)))

\* JSON.parse(trimmed) succeeds on a whole object only.
ParseOk(seg) ==
    /\ Len(seg) = 2
    /\ seg[1].part = "head"
    /\ seg[2].part = "tail"
    /\ seg[2].for = seg[1].id

Parse(seg) == [id |-> seg[1].id, error |-> seg[2].error, for |-> seg[2].for]

\* Faulty variant: the first response that parses is taken.
MatchesAny(response, id) == TRUE

\* if (response.id === id)
Matches(response, id) == response.id = id

\* The first piece of the buffer that parses and matches, or 0.
FirstMatch(segs, id) ==
    LET hits == {k \in 1..Len(segs) :
                    ParseOk(segs[k]) /\ Matches(Parse(segs[k]), id)}
    IN  IF hits = {} THEN 0 ELSE CHOOSE x \in hits : \A y \in hits : x <= y

\* A promise settles once: resolve and reject after that do nothing.
\* `stamp` records the order in which the promises settled.
Settle(r, status, value, stamp) ==
    IF r.status = "pending"
    THEN [r EXCEPT !.status = status, !.value = value, !.settledAt = stamp]
    ELSE r

\* One more than the number of promises settled so far.
NextStamp == Cardinality({k \in DOMAIN requests :
                            requests[k].status # "pending"}) + 1

\* responseBuffer += data.toString()
Accumulate(buf, chunk) == buf \o chunk

\* onData(data) of one request. On a match the timer is cleared and the
\* listener removed, and its buffer is never read again.
OnData(r, chunk, stamp) ==
    IF ~r.listening THEN r
    ELSE LET buf == Accumulate(r.buffer, chunk)
             segs == Segments(buf)
             m == FirstMatch(segs, r.id)
             grown == [r EXCEPT !.buffer = buf]
         IN  IF m = 0 THEN grown
             ELSE LET response == Parse(segs[m])
                      removed == [r EXCEPT !.timer = FALSE,
                                           !.listening = FALSE,
                                           !.buffer = <<>>]
                  IN  IF response.error
                      THEN Settle(removed, "rejected",
                                  <<"error", response.for>>, stamp)
                      ELSE Settle(removed, "resolved",
                                  <<"result", response.for>>, stamp)

\* Faulty variant: the incremented counter is not stored.
IssueIdNoStore(c) == [conn |-> c, id |-> c.requestId + 1]

\* const id = ++connection.requestId
IssueId(c) ==
    [conn |-> [c EXCEPT !.requestId = c.requestId + 1],
     id |-> c.requestId + 1]

\* Faulty variant: the timer callback also kills and forgets the provider.
OnTimeoutKill(c) == [c EXCEPT !.alive = FALSE, !.registered = FALSE]

\* The timer callback only rejects; the connection is not touched.
OnTimeout(c) == c

\* sendJsonRpc: the id is taken, the timer armed, the listener added and the
\* request written. The tool adapter calls it only for a registered provider.
SendJsonRpc ==
    /\ conn.registered
    /\ Len(requests) < MaxRequests
    /\ LET issued == IssueId(conn)
       IN  /\ conn' = issued.conn
           /\ requests' = Append(requests,
                [id |-> issued.id, status |-> "pending", value |-> <<"none">>,
                 settledAt |-> 0, listening |-> TRUE, timer |-> TRUE,
                 buffer |-> <<>>])
    /\ UNCHANGED <<wire, nLines, outsideMcp>>

\* The provider writes one response line, for any id and in any order.
ProviderWrites ==
    /\ conn.alive
    /\ nLines < MaxLines
    /\ \E i \in ProviderIds, e \in BOOLEAN :
        wire' = wire \o ResponseLine(i, e)
    /\ nLines' = nLines + 1
    /\ UNCHANGED <<conn, requests, outsideMcp>>

\* stdout emits 'data' with the next chunk: every listener runs on it.
StdoutData ==
    /\ \E n \in 1..Len(wire) :
        LET chunk == SubSeq(wire, 1, n)
        IN  /\ requests' = [k \in DOMAIN requests |->
                                OnData(requests[k], chunk, NextStamp)]
            /\ wire' = SubSeq(wire, n + 1, Len(wire))
    /\ UNCHANGED <<conn, nLines, outsideMcp>>

\* The request's timer fires.
RequestTimeout ==
    /\ \E k \in DOMAIN requests :
        /\ requests[k].timer
        /\ requests' = [requests EXCEPT
                ![k] = Settle([@ EXCEPT !.timer = FALSE],
                              "rejected", <<"timeout">>, NextStamp)]
    /\ conn' = OnTimeout(conn)
    /\ UNCHANGED <<wire, nLines, outsideMcp>>

\* closeMCP: the process is killed and the registry cleared.
closeMCP ==
    /\ conn.registered
    /\ conn' = [conn EXCEPT !.alive = FALSE, !.registered = FALSE]
    /\ UNCHANGED <<requests, wire, nLines, outsideMcp>>

NextMcp ==
    \/ SendJsonRpc
    \/ ProviderWrites
    \/ StdoutData
    \/ RequestTimeout
    \/ closeMCP

SpecMcp == Init /\ [][NextMcp]_vars

----------------------------------------------------------------------------
(* mcp-client.ts: initializeMCP and connectToServer, called by CLI.start *)

\* What a configured provider does during discovery. spawn() throws at once
\* on a command that is not a string; for a command that cannot be started it
\* returns a child and emits 'error' on it on the next tick. The handshake
\* requests may be answered with a result, with an error, or not at all; the
\* tools/list result may be null.
ProviderBehaviours ==
    {"ok", "spawnThrows", "spawnErrorEvent", "initializeError",
     "initializeTimeout", "listError", "listTimeout", "listNull"}

\* The catalog of provider i: one tool, exposed as mcp_<i>_echo.
CatalogOf(i) == {<<i, "echo">>}

\* The for-of loop of initializeMCP moves to the next entry, or the function
\* returns and CLI.start registers every returned tool. It is reached with a
\* stored connection, or through connectToServer's catch block, which prints
\* a warning, returns null and leaves the child, if any, as it is.
BootAdvance(b) ==
    IF b.i < Len(b.cfg)
    THEN [b EXCEPT !.i = b.i + 1, !.pc = "spawn"]
    ELSE [b EXCEPT !.pc = "returned", !.registered = b.mcpTools]

\* initializeMCP is called with a configuration of one or more providers.
InitializeMCP ==
    /\ boot.pc = "idle"
    /\ \E n \in 1..MaxProviders : \E cfg \in [1..n -> ProviderBehaviours] :
        boot' = [boot EXCEPT !.cfg = cfg, !.i = 1, !.pc = "spawn"]
    /\ UNCHANGED outsideBoot

\* connectToServer up to its first await: spawn, the stderr listener, and
\* the initialize request. No 'error' listener is put on the child.
ConnectSpawn ==
    /\ boot.pc = "spawn"
    /\ boot' = IF boot.cfg[boot.i] = "spawnThrows"
               THEN BootAdvance(boot)
               ELSE [boot EXCEPT !.pc = "initialize",
                                 !.children = @ \cup {boot.i}]
    /\ UNCHANGED outsideBoot

\* The child of a command that could not be started emits 'error'. An
\* 'error' event without a listener is thrown by the emitter, outside every
\* try block: the host dies of an uncaught exception.
ChildErrorEvent ==
    /\ boot.pc = "initialize"
    /\ boot.cfg[boot.i] = "spawnErrorEvent"
    /\ boot' = [boot EXCEPT !.pc = "crashed", !.hostAlive = FALSE]
    /\ UNCHANGED outsideBoot

\* await sendJsonRpc(connection, 'initialize', ...) settles.
InitializeSettles ==
    /\ boot.pc = "initialize"
    /\ boot.cfg[boot.i] # "spawnErrorEvent"
    /\ boot' = IF boot.cfg[boot.i] \in {"initializeError", "initializeTimeout"}
               THEN BootAdvance(boot)
               ELSE [boot EXCEPT !.pc = "list"]
    /\ UNCHANGED outsideBoot

\* await sendJsonRpc(connection, 'tools/list') settles; on success the
\* connection is returned, stored in `connections`, and its tools appended.
ToolsListSettles ==
    /\ boot.pc = "list"
    /\ boot' = IF boot.cfg[boot.i] \in {"listError", "listTimeout", "listNull"}
               THEN BootAdvance(boot)
               ELSE BootAdvance(
                        [boot EXCEPT !.connections = @ \cup {boot.i},
                                     !.mcpTools = @ \cup CatalogOf(boot.i)])
    /\ UNCHANGED outsideBoot

NextBoot ==
    \/ InitializeMCP
    \/ ConnectSpawn
    \/ ChildErrorEvent
    \/ InitializeSettles
    \/ ToolsListSettles

SpecBoot == Init /\ [][NextBoot]_vars

----------------------------------------------------------------------------
(* run-command.ts: a background task *)

\* A string of process output is kept as the list of its runs of consecutive
\* stream positions: the character at position p of the stream is p itself.
RECURSIVE StrLen(_)
StrLen(str) ==
    IF str = <<>> THEN 0
    ELSE (str[1].to - str[1].from + 1) + StrLen(Tail(str))

\* a + b, for a chunk b of one run.
Concat(str, run) ==
    IF str # <<>> /\ str[Len(str)].to + 1 = run.from
    THEN [str EXCEPT ![Len(str)].to = run.to]
    ELSE Append(str, run)

\* The first n characters of the string.
RECURSIVE Prefix(_, _)
Prefix(str, n) ==
    IF n <= 0 \/ str = <<>> THEN <<>>
    ELSE LET len == str[1].to - str[1].from + 1
         IN  IF len >= n
             THEN <<[from |-> str[1].from, to |-> str[1].from + n - 1]>>
             ELSE <<str[1]>> \o Prefix(Tail(str), n - len)

\* Faulty variant: the characters are dropped at the end of the string.
SubstringOfHead(str, start) == Prefix(str, StrLen(str) - start)

\* str.substring(start), for 0 <= start <= str.length.
RECURSIVE Substring(_, _)
Substring(str, start) ==
    IF start <= 0 \/ str = <<>> THEN str
    ELSE LET len == str[1].to - str[1].from + 1
         IN  IF len <= start
             THEN Substring(Tail(str), start - len)
             ELSE <<[from |-> str[1].from + start, to |-> str[1].to]>>
                      \o Tail(str)

\* The stdout 'data' listener of the background branch.
OnStdoutData(buf, run) ==
    LET grown == Concat(buf, run)
    IN  IF StrLen(grown) > MAX_OUTPUT_LENGTH
        THEN Substring(grown, StrLen(grown) - MAX_OUTPUT_LENGTH)
        ELSE grown

\* The stderr 'data' listener of the background branch: it only appends.
OnStderrData(buf, run) == Concat(buf, run)

\* Sizes of the chunks a stream delivers.
ChunkSizes == {1, 20000, MAX_OUTPUT_LENGTH, MAX_OUTPUT_LENGTH + 1}

\* execute() with background=true, approved: the record is stored, the
\* shell spawned, the listeners added and the timer armed.
StartBackground ==
    /\ task.proc = "none"
    /\ task' = [task EXCEPT !.proc = "running", !.timer = TRUE]
    /\ UNCHANGED outsideTask

\* stdout or stderr delivers a chunk; the streams stay open until 'close'.
TaskStdout ==
    /\ task.proc \in {"running", "signalled"}
    /\ task.chunks < MaxChunks
    /\ \E n \in ChunkSizes :
        task' = [task EXCEPT
            !.stdout = OnStdoutData(@, [from |-> task.outTotal + 1,
                                        to |-> task.outTotal + n]),
            !.outTotal = @ + n,
            !.chunks = @ + 1]
    /\ UNCHANGED outsideTask

TaskStderr ==
    /\ task.proc \in {"running", "signalled"}
    /\ task.chunks < MaxChunks
    /\ \E n \in ChunkSizes :
        task' = [task EXCEPT
            !.stderr = OnStderrData(@, [from |-> task.errTotal + 1,
                                        to |-> task.errTotal + n]),
            !.errTotal = @ + n,
            !.chunks = @ + 1]
    /\ UNCHANGED outsideTask

\* The process ends and 'close' is emitted: done and the code are stored,
\* whatever they were. The code is an exit status <<n>>, or null, written
\* <<>>, when a signal ended the process; a signalled shell may still exit
\* by itself.
TaskCloses ==
    /\ task.proc \in {"running", "signalled"}
    /\ \E code \in {<<0>>, <<1>>, <<>>} :
        /\ code = <<>> => task.proc = "signalled"
        /\ task' = [task EXCEPT !.done = TRUE, !.exitCode = code,
                                !.proc = "closed"]
    /\ UNCHANGED outsideTask

\* The timer callback; the timer is never cleared, so it also fires after
\* the command has ended, and then does nothing.
TaskTimerFires ==
    /\ task.timer
    /\ task' = IF ~task.done
               THEN [task EXCEPT !.timer = FALSE, !.done = TRUE,
                                 !.exitCode = <<-1>>, !.timedOut = TRUE,
                                 !.proc = "signalled"]
               ELSE [task EXCEPT !.timer = FALSE]
    /\ UNCHANGED outsideTask

\* The result of execute() with command "bg-status bg-1", the call the
\* launch message tells the model to make: execute() has no branch for it
\* and no code reads backgroundProcesses, so it is one more shell command.
\* The user declines it, or /bin/sh runs it and ends with code 127, no such
\* program being installed.
StatusResults ==
    {[success |-> FALSE, output |-> <<>>, error |-> "cancelledByUser"],
     [success |-> FALSE, output |-> <<"exitCode", 127>>,
      error |-> "exitCode127"]}

StatusQuery ==
    /\ task.proc # "none"
    /\ \E result \in StatusResults : task' = [task EXCEPT !.query = <<result>>]
    /\ UNCHANGED outsideTask

NextTask ==
    \/ StartBackground
    \/ StatusQuery
    \/ TaskStdout
    \/ TaskStderr
    \/ TaskCloses
    \/ TaskTimerFires

SpecTask == Init /\ [][NextTask]_vars

----------------------------------------------------------------------------
(* parallel-agents.ts: parallelAgentsTool.execute *)

\* taskList.slice(0, MAX_CONCURRENT): the indices of the accepted tasks.
Limited(n) == 1..(IF n < MAX_CONCURRENT THEN n ELSE MAX_CONCURRENT)

\* What the async callback of limited.map returns for task i: the runner's
\* answer, or the message of the error that ended the race (the runner's
\* rejection or the timer's). The title of task i is i.
EntryOf(i, outcome) ==
    [title |-> i, success |-> (outcome = "fulfilled"),
     result |-> <<outcome, i>>]

Pending == [success |-> FALSE, result |-> <<"pending">>]

\* Faulty variant: the values are collected in the order of completion.
PromiseAllByCompletion(entries, order) ==
    [j \in 1..Len(order) |-> entries[order[j]]]

\* Promise.all(promises): the values in the order of the promises.
PromiseAll(entries, order) ==
    [j \in 1..Len(order) |-> entries[j]]

\* Faulty variant: one successful entry is enough.
SomeSuccess(results) == \E j \in DOMAIN results : results[j].success

\* results.every(r => r.success)
AllSuccess(results) == \A j \in DOMAIN results : results[j].success

\* execute() with a runner set and n well-formed tasks: the tasks are
\* limited and every accepted one is started.
FanoutStart ==
    /\ fanout.pc = "idle"
    /\ \E n \in 1..MaxTasks :
        fanout' = [pc |-> "running", n |-> n,
                   entries |-> [i \in Limited(n) |-> Pending],
                   order |-> <<>>, late |-> {},
                   calls |-> [i \in Limited(n) |-> "pending"],
                   ret |-> [settled |-> FALSE]]
    /\ UNCHANGED outsideFanout

\* How the race of a task ends, by what happens in it. The runner set by the
\* CLI is simpleChat: its promise is fulfilled with the model's answer, and,
\* simpleChat catching the failure of the model call, with the text of the
\* error as well. Another runner may reject; the timer may win the race.
RunnerOutcome(call) ==
    CASE call \in {"answer", "modelFails"} -> "fulfilled"
      [] OTHER -> call

\* The race of task i settles: the runner fulfils, the runner rejects, or
\* the timer rejects first. The callback's promise is fulfilled with the
\* entry in every case.
SubTaskSettles ==
    /\ fanout.pc = "running"
    /\ \E i \in DOMAIN fanout.entries :
       \E call \in {"answer", "modelFails", "rejected", "timeout"} :
        /\ fanout.entries[i] = Pending
        /\ fanout' = [fanout EXCEPT
                          !.entries[i] = EntryOf(i, RunnerOutcome(call)),
                          !.calls[i] = call,
                          !.order = Append(@, i)]
    /\ UNCHANGED outsideFanout

\* The runner of a task whose race the timer won: Promise.race leaves the
\* promise of _parallelRunner(task.prompt) alone, the sub-agent's model call
\* goes on and settles later, during the call or after it has returned.
RunnerSettlesLate ==
    /\ fanout.pc \in {"running", "returned"}
    /\ \E i \in DOMAIN fanout.entries :
        /\ fanout.entries[i].result[1] = "timeout"
        /\ i \notin fanout.late
        /\ fanout' = [fanout EXCEPT !.late = @ \cup {i}]
    /\ UNCHANGED outsideFanout

\* await Promise.all(promises) resumes when every promise is fulfilled; the
\* aggregate is formatted and returned.
FanoutReturn ==
    /\ fanout.pc = "running"
    /\ Len(fanout.order) = Cardinality(DOMAIN fanout.entries)
    /\ LET results == PromiseAll(fanout.entries, fanout.order)
       IN  fanout' = [fanout EXCEPT
                !.pc = "returned",
                !.ret = [settled |-> TRUE, success |-> AllSuccess(results),
                         results |-> results]]
    /\ UNCHANGED outsideFanout

NextFanout ==
    \/ FanoutStart
    \/ SubTaskSettles
    \/ RunnerSettlesLate
    \/ FanoutReturn

SpecFanout == Init /\ [][NextFanout]_vars

----------------------------------------------------------------------------
(* git-checkpoint.ts: checkpoints on the git stash *)

\* The files of the project: one that HEAD tracks and one that it does not.
\* A tree gives each path its content, or "absent"; HEAD does not move.
Trees == {t \in [Paths -> {"absent", "v0", "v1", "v2"}] :
            t["n"] \in {"absent", "v1"}}

\* Faulty variant: every directory is taken for a repository.
IsGitRepoAlways(r) == TRUE

\* isGitRepo(): git rev-parse --is-inside-work-tree exits with 0.
isGitRepo(r) == r.isRepo

\* An execSync('git ...') call returns; it throws when the directory is no
\* repository and when git exits with an error for a reason of its
\* environment (`fail` names the command that does).
GitRuns(r, fail, cmd) == r.isRepo /\ fail # cmd

\* git add -A
GitAddAll(r) == [r EXCEPT !.index = r.tree]

\* git status --porcelain prints nothing.
GitStatusClean(r) == r.index = HeadTree /\ r.tree = r.index

\* git stash push -m <label>: the tracked content goes on top of the list;
\* index and tracked files are reset to HEAD. `ours` tells that the label
\* has the checkpoint prefix, `newest` marks the latest checkpoint.
GitStashPush(r, ours) ==
    LET tracked == {p \in Paths : r.index[p] # "absent"
                                    \/ HeadTree[p] # "absent"}
        entry == [ours |-> ours, newest |-> ours,
                  w |-> [p \in Paths |-> IF p \in tracked THEN r.tree[p]
                                         ELSE "absent"]]
        older == [k \in DOMAIN r.stashes |->
                    [r.stashes[k] EXCEPT !.newest = @ /\ ~ours]]
    IN  [r EXCEPT !.stashes = <<entry>> \o older,
                  !.index = HeadTree,
                  !.tree = [p \in Paths |-> IF p \in tracked THEN HeadTree[p]
                                            ELSE r.tree[p]]]

\* git stash apply stash@{k-1}, without --index: the three-way merge of the
\* stashed tree into the index tree with HEAD as the base. It refuses to
\* overwrite a file that differs from the index; on a conflict it leaves the
\* file conflicted; otherwise the merged files are written and only the
\* files the stash added stay staged.
GitStashApply(r, k) ==
    LET theirs == r.stashes[k].w
        touched == {p \in Paths : theirs[p] # HeadTree[p]
                                    /\ theirs[p] # r.index[p]}
        conflicts == {p \in touched : r.index[p] # HeadTree[p]}
    IN  IF \E p \in touched : r.tree[p] # r.index[p]
        THEN [ok |-> FALSE, repo |-> r]
        ELSE IF conflicts # {}
        THEN [ok |-> FALSE,
              repo |-> [r EXCEPT !.tree =
                    [p \in Paths |-> IF p \in conflicts THEN "conflict"
                                     ELSE IF p \in touched THEN theirs[p]
                                     ELSE r.tree[p]]]]
        ELSE [ok |-> TRUE,
              repo |-> [r EXCEPT
                !.tree = [p \in Paths |-> IF p \in touched THEN theirs[p]
                                          ELSE r.tree[p]],
                !.index = [p \in Paths |->
                            IF p \in touched /\ r.index[p] = "absent"
                            THEN theirs[p] ELSE r.index[p]]]]

\* git checkout -- . : every file of the index is written from the index.
GitCheckoutAll(r) ==
    [r EXCEPT !.tree = [p \in Paths |-> IF r.index[p] # "absent"
                                        THEN r.index[p] ELSE r.tree[p]]]

\* git clean -fd: the files the index does not know are removed.
GitClean(r) ==
    [r EXCEPT !.tree = [p \in Paths |-> IF r.index[p] = "absent"
                                        THEN "absent" ELSE r.tree[p]]]

\* createCheckpoint(label). The result carries the repository afterwards,
\* the returned boolean and the mutating git commands that were started.
createCheckpoint(r, fail) ==
    IF ~isGitRepo(r) THEN [repo |-> r, ret |-> FALSE, cmds |-> {}]
    ELSE IF ~GitRuns(r, fail, "add")
    THEN [repo |-> r, ret |-> FALSE, cmds |-> {"add"}]
    ELSE LET r1 == GitAddAll(r)
         IN  IF ~GitRuns(r, fail, "status")
             THEN [repo |-> r1, ret |-> FALSE, cmds |-> {"add"}]
             ELSE IF GitStatusClean(r1)
             THEN [repo |-> r1, ret |-> TRUE, cmds |-> {"add"}]
             ELSE IF ~GitRuns(r, fail, "push")
             THEN [repo |-> r1, ret |-> FALSE, cmds |-> {"add", "push"}]
             ELSE LET r2 == GitStashPush(r1, TRUE)
                      ap == GitStashApply(r2, 1)
                  IN  IF ~GitRuns(r, fail, "apply")
                      THEN [repo |-> r2, ret |-> FALSE,
                            cmds |-> {"add", "push", "apply"}]
                      ELSE [repo |-> ap.repo, ret |-> ap.ok,
                            cmds |-> {"add", "push", "apply"}]

\* rollbackToLastCheckpoint(). `popped` holds the stash entry that was
\* restored and dropped, if any.
rollbackToLastCheckpoint(r, fail) ==
    LET hits == {k \in DOMAIN r.stashes : r.stashes[k].ours}
        k == CHOOSE x \in hits : \A y \in hits : x <= y
        none(rr, cmds) == [repo |-> rr, ret |-> FALSE, cmds |-> cmds,
                           popped |-> <<>>]
    IN  IF ~isGitRepo(r) THEN none(r, {})
        ELSE IF ~GitRuns(r, fail, "list") THEN none(r, {})
        ELSE IF hits = {} THEN none(r, {})
        ELSE IF ~GitRuns(r, fail, "checkout")
                    \/ \A p \in Paths : r.index[p] = "absent"
        THEN none(r, {"checkout"})
        ELSE IF ~GitRuns(r, fail, "clean")
        THEN none(GitCheckoutAll(r), {"checkout", "clean"})
        ELSE LET r2 == GitClean(GitCheckoutAll(r))
                 ap == GitStashApply(r2, k)
                 all == {"checkout", "clean", "pop"}
             IN  IF ~GitRuns(r, fail, "pop") THEN none(r2, all)
                 ELSE IF ~ap.ok THEN none(ap.repo, all)
                 ELSE [repo |-> [ap.repo EXCEPT !.stashes =
                            SubSeq(@, 1, k - 1) \o SubSeq(@, k + 1, Len(@))],
                       ret |-> TRUE, cmds |-> all,
                       popped |-> <<r.stashes[k]>>]

\* What is remembered of the last operation on the tree, and of the last
\* checkpoint: `live` says that createCheckpoint returned true in tree S and
\* that only the files were changed since.
LastOp(op, res, envFail) ==
    [op |-> op, ret |-> res.ret, cmds |-> res.cmds, envFail |-> envFail,
     popped |-> IF "popped" \in DOMAIN res THEN res.popped ELSE <<>>]

NoMark == [live |-> FALSE, S |-> HeadTree]

\* /checkpoint
CmdCheckpoint ==
    /\ Len(repo.stashes) < MaxStashes
    /\ \E fail \in {"none", "add", "status", "push", "apply"} :
        LET res == createCheckpoint(repo, fail)
        IN  repo' = [res.repo EXCEPT
                !.last = LastOp("create", res, fail # "none"),
                !.mark = IF res.ret THEN [live |-> TRUE, S |-> repo.tree]
                         ELSE NoMark]
    /\ UNCHANGED outsideRepo

\* /undo
CmdUndo ==
    /\ \E fail \in {"none", "list", "checkout", "clean", "pop"} :
        LET res == rollbackToLastCheckpoint(repo, fail)
        IN  repo' = [res.repo EXCEPT
                !.last = LastOp("rollback", res, fail # "none"),
                !.mark = NoMark]
    /\ UNCHANGED outsideRepo

\* edit_file, approved: createCheckpoint, then the new content is written.
EditFile ==
    /\ Len(repo.stashes) < MaxStashes
    /\ repo.tree["a"] \in {"v0", "v1", "v2"}
    /\ \E fail \in {"none", "add", "status", "push", "apply"} :
       \E c \in {"v1", "v2"} \ {repo.tree["a"]} :
        LET res == createCheckpoint(repo, fail)
        IN  repo' = [res.repo EXCEPT
                !.tree = [res.repo.tree EXCEPT !["a"] = c],
                !.last = LastOp("edit", res, fail # "none"),
                !.mark = IF res.ret THEN [live |-> TRUE, S |-> repo.tree]
                         ELSE NoMark]
    /\ UNCHANGED outsideRepo

\* The files are changed by a tool without a checkpoint (write_file on a
\* new file, run_command) or outside the program.
MutateTree ==
    /\ \E t \in Trees \ {repo.tree} :
        repo' = [repo EXCEPT !.tree = t,
                             !.last = [op |-> "mutate", ret |-> TRUE,
                                       cmds |-> {}, envFail |-> FALSE,
                                       popped |-> <<>>]]
    /\ UNCHANGED outsideRepo

\* /git stash: the user's own entry on the stash list.
GitCommandStash ==
    /\ isGitRepo(repo)
    /\ Len(repo.stashes) < MaxStashes
    /\ repo.tree # HeadTree \/ repo.index # HeadTree
    /\ \A p \in Paths : repo.tree[p] # "conflict"
    /\ repo' = [GitStashPush(repo, FALSE) EXCEPT
                    !.last = [op |-> "stash", ret |-> TRUE, cmds |-> {"push"},
                              envFail |-> FALSE, popped |-> <<>>],
                    !.mark = NoMark]
    /\ UNCHANGED outsideRepo

NextRepo ==
    \/ CmdCheckpoint
    \/ CmdUndo
    \/ EditFile
    \/ MutateTree
    \/ GitCommandStash

\* The program is started in a repository or in a plain directory.
InitAnyDirectory ==
    \E isRepo \in BOOLEAN :
        /\ InitDispatchVars /\ InitChatVars /\ InitMcpVars
        /\ boot = [pc |-> "idle", cfg |-> <<>>, i |-> 0, children |-> {},
                   connections |-> {}, mcpTools |-> {}, registered |-> {},
                   hostAlive |-> TRUE]
        /\ task = [proc |-> "none", timer |-> FALSE, done |-> FALSE,
                   exitCode |-> <<>>, stdout |-> <<>>, stderr |-> <<>>,
                   outTotal |-> 0, errTotal |-> 0, chunks |-> 0,
                   timedOut |-> FALSE]
        /\ fanout = [pc |-> "idle", n |-> 0, entries |-> <<>>,
                     order |-> <<>>, late |-> {}, calls |-> <<>>,
                     ret |-> [settled |-> FALSE]]
        /\ repo = [isRepo |-> isRepo, index |-> HeadTree,
                   tree |-> HeadTree, stashes |-> <<>>,
                   last |-> [op |-> "none", ret |-> FALSE, cmds |-> {},
                             envFail |-> FALSE, popped |-> <<>>],
                   mark |-> NoMark]
        /\ InitTurnVars

SpecRepo == InitAnyDirectory /\ [][NextRepo]_vars

----------------------------------------------------------------------------
(* mcp-client.ts: execute() of an adapted tool *)

\* The content blocks a provider answers with; a text is a sequence of
\* tokens without newline, the third block has no text (or an empty one),
\* the fourth is not of type text.
ContentBlocks ==
    {[type |-> "text", text |-> <<"a">>], [type |-> "text", text |-> <<"b">>],
     [type |-> "text", text |-> <<>>], [type |-> "resource", text |-> <<"r">>]}

\* The responses to a tools/call request: an error, or a result with a
\* list of content blocks (a result without content counts as the empty
\* list, result.content || []).
Answers ==
    {[error |-> TRUE, content |-> <<>>]}
    \cup {[error |-> FALSE, content |-> c] :
             c \in UNION {[1..n -> ContentBlocks] : n \in 0..MaxBlocks}}

\* Array.prototype.join('\n')
RECURSIVE JoinLines(_)
JoinLines(texts) ==
    IF texts = <<>> THEN <<>>
    ELSE IF Len(texts) = 1 THEN Head(texts)
    ELSE Head(texts) \o <<"\n">> \o JoinLines(Tail(texts))

\* execute() with the filter on the block type left out.
ToolResultUnfiltered(answer) ==
    IF answer.error
    THEN [success |-> FALSE, output |-> <<>>, error |-> "MCPToolError"]
    ELSE [success |-> TRUE,
          output |-> JoinLines([k \in 1..Len(answer.content) |->
                                    answer.content[k].text])]

\* execute() after sendJsonRpc settled: a rejection is caught and turned
\* into a failure, a result into the joined texts of its text blocks.
ToolResultOf(answer) ==
    LET isText(c) == c.type = "text"
        blocks == SelectSeq(answer.content, isText)
    IN  IF answer.error
        THEN [success |-> FALSE, output |-> <<>>, error |-> "MCPToolError"]
        ELSE [success |-> TRUE,
              output |-> JoinLines([k \in 1..Len(blocks) |-> blocks[k].text])]

\* execute(args) of the tool T of provider P, registered as mcp_P_T: without
\* a connection for P (after closeMCP) it returns a failure, else it sends
\* the request and awaits the response.
McpToolExecute ==
    /\ adapter.pc = "idle"
    /\ \E P \in {"p1", "p2"}, T \in {"read", "list"},
          args \in {"args1", "args2"}, connected \in BOOLEAN :
           adapter' =
               IF connected
               THEN [pc |-> "awaiting", provider |-> P, tool |-> T,
                     args |-> args, answer |-> <<>>, ret |-> <<>>,
                     sent |-> <<[to |-> P, method |-> "tools/call",
                                 params |-> [name |-> T,
                                             arguments |-> args]]>>]
               ELSE [pc |-> "returned", provider |-> P, tool |-> T,
                     args |-> args, answer |-> <<>>, sent |-> <<>>,
                     ret |-> <<[success |-> FALSE, output |-> <<>>,
                                error |-> "notConnected"]>>]
    /\ UNCHANGED outsideAdapter

\* The provider's response arrives and execute() returns.
McpToolAnswered ==
    /\ adapter.pc = "awaiting"
    /\ \E answer \in Answers :
           adapter' = [adapter EXCEPT !.pc = "returned",
                                      !.answer = <<answer>>,
                                      !.ret = <<ToolResultOf(answer)>>]
    /\ UNCHANGED outsideAdapter

\* The request timer of sendJsonRpc rejects first: the catch block returns
\* a failure.
McpToolTimesOut ==
    /\ adapter.pc = "awaiting"
    /\ adapter' = [adapter EXCEPT
           !.pc = "returned",
           !.ret = <<[success |-> FALSE, output |-> <<>>,
                      error |-> "MCPToolError"]>>]
    /\ UNCHANGED outsideAdapter

NextAdapter ==
    \/ McpToolExecute
    \/ McpToolAnswered
    \/ McpToolTimesOut

SpecAdapter == Init /\ [][NextAdapter]_vars

----------------------------------------------------------------------------
(* Tool-call extraction: utils.ts, and its use by chat() *)

\* A text is a sequence of tokens. The characters the scanners and
\* JSON.parse tell apart ({ } [ ] : , " \ and the blank) are one token each;
\* a word, a digit, a tag and a fence of three backquotes (written
\* "<fence>") are one token each as well.
Quote == "\""
Backslash == "\\"

\* JSON.parse: the values are records tagged by kind; Undefined is what a
\* property access on a value without that property gives.
Undefined == [kind |-> "undefined"]

\* JSON.parse(t): [ok, v] with ok false where JSON.parse throws. A string
\* literal takes a backslash before a quote or a backslash and before
\* nothing else of this alphabet; a number is a run of the digits 1 and 5;
\* the members of an object and the elements of an array are read one at a
\* time; nothing but blanks may follow the value.
JSONParse(t) ==
    LET Fail == [ok |-> FALSE, v |-> Undefined, next |-> 0]
        RECURSIVE SkipBlank(_)
        SkipBlank(i) ==
            IF i <= Len(t) /\ t[i] = " " THEN SkipBlank(i + 1) ELSE i
        RECURSIVE ParseString(_, _)
        ParseString(i, acc) ==
            IF i > Len(t) THEN Fail
            ELSE IF t[i] = Quote
            THEN [ok |-> TRUE, v |-> [kind |-> "string", text |-> acc],
                  next |-> i + 1]
            ELSE IF t[i] = Backslash
            THEN IF i + 1 <= Len(t) /\ t[i + 1] \in {Quote, Backslash}
                 THEN ParseString(i + 2, Append(acc, t[i + 1]))
                 ELSE Fail
            ELSE ParseString(i + 1, Append(acc, t[i]))
        RECURSIVE ParseNumber(_, _)
        ParseNumber(i, acc) ==
            IF i <= Len(t) /\ t[i] \in {"1", "5"}
            THEN ParseNumber(i + 1, Append(acc, t[i]))
            ELSE [ok |-> TRUE, v |-> [kind |-> "number", text |-> acc],
                  next |-> i]
        RECURSIVE ParseValue(_), ParseMembers(_, _, _), ParseElements(_, _)
        ParseValue(i0) ==
            LET i == SkipBlank(i0)
                k == SkipBlank(i + 1)
            IN  IF i > Len(t) THEN Fail
                ELSE IF t[i] = "{"
                THEN IF k <= Len(t) /\ t[k] = "}"
                     THEN [ok |-> TRUE,
                           v |-> [kind |-> "object", keys |-> <<>>,
                                  vals |-> <<>>],
                           next |-> k + 1]
                     ELSE ParseMembers(k, <<>>, <<>>)
                ELSE IF t[i] = "["
                THEN IF k <= Len(t) /\ t[k] = "]"
                     THEN [ok |-> TRUE,
                           v |-> [kind |-> "array", vals |-> <<>>],
                           next |-> k + 1]
                     ELSE ParseElements(k, <<>>)
                ELSE IF t[i] = Quote THEN ParseString(i + 1, <<>>)
                ELSE IF t[i] \in {"1", "5"} THEN ParseNumber(i, <<>>)
                ELSE IF t[i] \in {"null", "true"}
                THEN [ok |-> TRUE, v |-> [kind |-> t[i]], next |-> i + 1]
                ELSE Fail
        ParseMembers(i, keys, vals) ==
            LET key == ParseString(i + 1, <<>>)
                c == SkipBlank(key.next)
                val == ParseValue(c + 1)
                e == SkipBlank(val.next)
                ks == Append(keys, key.v.text)
                vs == Append(vals, val.v)
            IN  IF i > Len(t) \/ t[i] # Quote THEN Fail
                ELSE IF ~key.ok \/ c > Len(t) \/ t[c] # ":" THEN Fail
                ELSE IF ~val.ok \/ e > Len(t) THEN Fail
                ELSE IF t[e] = "}"
                THEN [ok |-> TRUE,
                      v |-> [kind |-> "object", keys |-> ks, vals |-> vs],
                      next |-> e + 1]
                ELSE IF t[e] = ","
                THEN ParseMembers(SkipBlank(e + 1), ks, vs)
                ELSE Fail
        ParseElements(i, vals) ==
            LET val == ParseValue(i)
                e == SkipBlank(val.next)
                vs == Append(vals, val.v)
            IN  IF ~val.ok \/ e > Len(t) THEN Fail
                ELSE IF t[e] = "]"
                THEN [ok |-> TRUE, v |-> [kind |-> "array", vals |-> vs],
                      next |-> e + 1]
                ELSE IF t[e] = "," THEN ParseElements(e + 1, vs)
                ELSE Fail
        Whole(r) == IF r.ok /\ SkipBlank(r.next) > Len(t) THEN r ELSE Fail
    IN  Whole(ParseValue(1))

\* obj.key in JavaScript, for the keys name, arguments and function: the
\* last member of that key of an object, Undefined on any other value.
Get(obj, key) ==
    IF obj.kind # "object" THEN Undefined
    ELSE LET hits == {k \in 1..Len(obj.keys) : obj.keys[k] = <<key>>}
         IN  IF hits = {} THEN Undefined
             ELSE obj.vals[CHOOSE k \in hits : \A h \in hits : h <= k]

\* String.prototype.trim.
RECURSIVE Trim(_)
Trim(t) ==
    IF t # <<>> /\ Head(t) = " " THEN Trim(Tail(t))
    ELSE IF t # <<>> /\ t[Len(t)] = " " THEN Trim(SubSeq(t, 1, Len(t) - 1))
    ELSE t

\* tryParseToolCall with pattern B left out.
TryParseShapeAOnly(t) ==
    LET Shape(r) ==
            IF r.ok /\ Get(r.v, "name").kind = "string"
                    /\ Get(r.v, "name").text # <<>>
                    /\ Get(r.v, "arguments").kind \in {"object", "array"}
            THEN <<[name |-> Get(r.v, "name"),
                    arguments |-> Get(r.v, "arguments")]>>
            ELSE <<>>
    IN  Shape(JSONParse(t))

\* tryParseToolCall: <<>> for null, else the one call. JSON.parse throwing
\* and the property access on null throwing both end in the catch.
\* typeof is 'object' for objects and arrays (and null, which is falsy);
\* Truthy is what counts as true in a condition.
tryParseToolCall(t) ==
    LET Truthy(v) == \/ v.kind \in {"object", "array", "true"}
                     \/ v.kind \in {"string", "number"} /\ v.text # <<>>
        Shape(ok, obj, fn) ==
            IF ~ok \/ obj.kind = "null" THEN <<>>
            ELSE IF /\ Get(obj, "name").kind = "string"
                    /\ Get(obj, "name").text # <<>>
                    /\ Get(obj, "arguments").kind \in {"object", "array"}
            THEN <<[name |-> Get(obj, "name"),
                    arguments |-> Get(obj, "arguments")]>>
            ELSE IF Truthy(Get(fn, "name")) /\ Truthy(Get(fn, "arguments"))
            THEN <<[name |-> Get(fn, "name"),
                    arguments |-> Get(fn, "arguments")]>>
            ELSE <<>>
        Parsed(r) == Shape(r.ok, r.v, Get(r.v, "function"))
    IN  Parsed(JSONParse(t))

\* The inner loop of extractBalancedJsonObjects with the string state
\* ignored: every brace counts.
ScanObjectNoStrings(t, i) ==
    LET Pass(s) ==
            IF s.end # 0 \/ s.j > Len(t) THEN s
            ELSE IF t[s.j] = "{"
            THEN [s EXCEPT !.j = @ + 1, !.depth = @ + 1]
            ELSE IF t[s.j] = "}" /\ s.depth - 1 = 0
            THEN [s EXCEPT !.depth = 0, !.end = s.j]
            ELSE IF t[s.j] = "}"
            THEN [s EXCEPT !.j = @ + 1, !.depth = @ - 1]
            ELSE [s EXCEPT !.j = @ + 1]
        RECURSIVE Passes(_, _)
        Passes(s, n) ==
            IF n = 0 THEN s
            ELSE IF n = 1 THEN Pass(s)
            ELSE CHOOSE r \in {Passes(h, n - (n \div 2)) :
                                 h \in {Passes(s, n \div 2)}} : TRUE
    IN  Passes([j |-> i, depth |-> 0, inString |-> FALSE,
                escaped |-> FALSE, end |-> 0], Len(t)).end

\* The inner loop of extractBalancedJsonObjects started at position i: the
\* position of the brace that brings the depth back to 0, or 0 when the
\* text ends first. Pass is one pass of the for loop on its variables j,
\* depth, inString and escaped; end is where the loop broke. The loop makes
\* at most Len(t) passes, and Passes(s, n) is n passes from s on, the first
\* half of them done (h) before the second half starts.
ScanObject(t, i) ==
    LET Pass(s) ==
            IF s.end # 0 \/ s.j > Len(t) THEN s
            ELSE IF s.escaped
            THEN [s EXCEPT !.j = @ + 1, !.escaped = FALSE]
            ELSE IF t[s.j] = Backslash /\ s.inString
            THEN [s EXCEPT !.j = @ + 1, !.escaped = TRUE]
            ELSE IF t[s.j] = Quote
            THEN [s EXCEPT !.j = @ + 1, !.inString = ~@]
            ELSE IF s.inString THEN [s EXCEPT !.j = @ + 1]
            ELSE IF t[s.j] = "{"
            THEN [s EXCEPT !.j = @ + 1, !.depth = @ + 1]
            ELSE IF t[s.j] = "}" /\ s.depth - 1 = 0
            THEN [s EXCEPT !.depth = 0, !.end = s.j]
            ELSE IF t[s.j] = "}"
            THEN [s EXCEPT !.j = @ + 1, !.depth = @ - 1]
            ELSE [s EXCEPT !.j = @ + 1]
        RECURSIVE Passes(_, _)
        Passes(s, n) ==
            IF n = 0 THEN s
            ELSE IF n = 1 THEN Pass(s)
            ELSE CHOOSE r \in {Passes(h, n - (n \div 2)) :
                                 h \in {Passes(s, n \div 2)}} : TRUE
    IN  Passes([j |-> i, depth |-> 0, inString |-> FALSE,
                escaped |-> FALSE, end |-> 0], Len(t)).end

\* extractBalancedJsonObjects: Turn is one turn of the while loop on i and
\* results, the loop turning at most Len(t) times since i grows at each
\* turn; Includes is candidate.includes('"key"').
extractBalancedJsonObjects(t) ==
    LET Includes(c, key) ==
            \E k \in 1..(Len(c) - 2) :
                c[k] = Quote /\ c[k + 1] = key /\ c[k + 2] = Quote
        Closed(s, j, candidate) ==
            IF j = 0 THEN [s EXCEPT !.i = @ + 1]
            ELSE IF Includes(candidate, "name")
                    /\ Includes(candidate, "arguments")
            THEN [i |-> j + 1, results |-> Append(s.results, candidate)]
            ELSE [s EXCEPT !.i = j + 1]
        Found(s, j) == Closed(s, j, SubSeq(t, s.i, j))
        Turn(s) ==
            IF s.i > Len(t) THEN s
            ELSE IF t[s.i] # "{" THEN [s EXCEPT !.i = @ + 1]
            ELSE Found(s, ScanObject(t, s.i))
        RECURSIVE Turns(_, _)
        Turns(s, n) ==
            IF n = 0 THEN s
            ELSE IF n = 1 THEN Turn(s)
            ELSE CHOOSE r \in {Turns(h, n - (n \div 2)) :
                                 h \in {Turns(s, n \div 2)}} : TRUE
    IN  Turns([i |-> 1, results |-> <<>>], Len(t)).results

\* The loop `while ((match = pattern.exec(text)) !== null)` for a pattern
\* made of an opening tag, a lazy body and a closing tag: the matches from
\* position i on, left to right, each resuming after the one before.
RECURSIVE ExecAll(_, _, _, _)
ExecAll(t, opens, close, i) ==
    LET starts == {k \in i..Len(t) : t[k] \in opens}
        o == CHOOSE k \in starts : \A h \in starts : k <= h
        ends == {k \in (o + 1)..Len(t) : t[k] = close}
        c == CHOOSE k \in ends : \A h \in ends : k <= h
    IN  IF starts = {} THEN <<>>
        ELSE IF ends = {} THEN <<>>
        ELSE <<[open |-> t[o], body |-> SubSeq(t, o + 1, c - 1)]>>
             \o ExecAll(t, opens, close, c + 1)

\* results.push(parsed) for the entries that gave a call.
RECURSIVE Pushed(_)
Pushed(found) ==
    IF found = <<>> THEN <<>> ELSE Head(found) \o Pushed(Tail(found))

\* Pattern 1 of parseToolCallsFromText: the fenced blocks, the tag json
\* after the fence being optional.
FencedCalls(t) ==
    LET blocks == ExecAll(t, {"<fence>"}, "<fence>", 1)
        Body(b) == IF b # <<>> /\ Head(b) = "json" THEN Tail(b) ELSE b
    IN  Pushed([k \in 1..Len(blocks) |->
                    tryParseToolCall(Trim(Body(blocks[k].body)))])

\* Pattern 2 of parseToolCallsFromText: the balanced objects.
ScannedCalls(t) ==
    LET jsonObjects == extractBalancedJsonObjects(t)
    IN  Pushed([k \in 1..Len(jsonObjects) |->
                    tryParseToolCall(jsonObjects[k])])

\* parseToolCallsFromText without the return between the two patterns.
ParseToolCallsMerged(t) ==
    IF Trim(t) = <<>> THEN <<>> ELSE FencedCalls(t) \o ScannedCalls(t)

parseToolCallsFromText(t) ==
    LET Return(results) == IF results # <<>> THEN results
                           ELSE ScannedCalls(t)
    IN  IF Trim(t) = <<>> THEN <<>> ELSE Return(FencedCalls(t))

\* The opening tags <function=NAME> of the texts, and the NAME of each.
FunctionTag == ("<function=y>" :> "y")

parseXmlToolCalls(t) ==
    LET toolCall == ExecAll(t, {"<tool_call>"}, "</tool_call>", 1)
        function == ExecAll(t, DOMAIN FunctionTag, "</function>", 1)
        Call(open, args) ==
            IF args.ok
            THEN <<[name |-> [kind |-> "string",
                              text |-> <<FunctionTag[open]>>],
                    arguments |-> args.v]>>
            ELSE <<>>
    IN  IF Trim(t) = <<>> THEN <<>>
        ELSE Pushed([k \in 1..Len(toolCall) |->
                        tryParseToolCall(Trim(toolCall[k].body))])
             \o Pushed([k \in 1..Len(function) |->
                        Call(function[k].open,
                             JSONParse(Trim(function[k].body)))])

\* chat(): the tool calls of one response, from message.tool_calls or else
\* from message.content.
ResponseToolCalls(native, fullContent) ==
    LET Stages(fallbackCalls, xmlCalls) ==
            IF native # <<>> THEN native
            ELSE IF fullContent # <<>> /\ fallbackCalls # <<>>
            THEN fallbackCalls
            ELSE IF fullContent # <<>> /\ xmlCalls # <<>> THEN xmlCalls
            ELSE <<>>
    IN  Stages(parseToolCallsFromText(fullContent),
               parseXmlToolCalls(fullContent))

\* The texts of the model. A response is made of pieces; each piece has its
\* text and the calls it encodes, which the extraction does not see.
\* ObjA(n, args) is {"name":"n","arguments":args}; A1 is {"a":1}; Braces is
\* {"a":"}{{\""}, a string value holding braces and an escaped quote.
Pieces ==
    LET Key(w) == <<Quote, w, Quote>>
        Call(n, a) == [name |-> [kind |-> "string", text |-> <<n>>],
                       arguments |-> a]
        ObjA(n, args) ==
            <<"{">> \o Key("name") \o <<":">> \o Key(n) \o <<",">>
            \o Key("arguments") \o <<":">> \o args \o <<"}">>
        One == [kind |-> "number", text |-> <<"1">>]
        TextA1 == <<"{">> \o Key("a") \o <<":", "1", "}">>
        ArgsA1 == [kind |-> "object", keys |-> <<<<"a">>>>, vals |-> <<One>>]
        TextBraces ==
            <<"{">> \o Key("a")
            \o <<":", Quote, "}", "{", "{", Backslash, Quote, Quote, "}">>
        ArgsBraces ==
            [kind |-> "object", keys |-> <<<<"a">>>>,
             vals |-> <<[kind |-> "string",
                         text |-> <<"}", "{", "{", Quote>>]>>]
    IN
    [ObjX |-> [text |-> ObjA("x", TextA1), calls |-> <<Call("x", ArgsA1)>>],
     \* {"function":{"name":"z","arguments":{"a":1}}}
     ObjFn |-> [text |-> <<"{">> \o Key("function") \o <<":">>
                         \o ObjA("z", TextA1) \o <<"}">>,
                calls |-> <<Call("z", ArgsA1)>>],
     \* {"name":"w"}
     NoArgs |-> [text |-> <<"{">> \o Key("name") \o <<":">> \o Key("w")
                          \o <<"}">>,
                 calls |-> <<>>],
     \* {"name" "arguments"}
     NotJson |-> [text |-> <<"{">> \o Key("name") \o <<" ">>
                           \o Key("arguments") \o <<"}">>,
                  calls |-> <<>>],
     Braces |-> [text |-> ObjA("v", TextBraces),
                 calls |-> <<Call("v", ArgsBraces)>>],
     \* {"name":"u","arguments":[1]}
     ArrayArgs |-> [text |-> ObjA("u", <<"[", "1", "]">>),
                    calls |-> <<Call("u", [kind |-> "array",
                                           vals |-> <<One>>])>>],
     \* an opening brace and a quote that nothing closes
     Stray |-> [text |-> <<"{", Quote>>, calls |-> <<>>],
     \* fenced blocks, tagged json or not, of one object and of two
     FenceOne |-> [text |-> <<"<fence>", "json", " ">> \o ObjA("f", TextA1)
                            \o <<" ", "<fence>">>,
                   calls |-> <<Call("f", ArgsA1)>>],
     FenceTwo |-> [text |-> <<"<fence>", " ">> \o ObjA("g", TextA1) \o <<" ">>
                            \o ObjA("h", TextA1) \o <<" ", "<fence>">>,
                   calls |-> <<Call("g", ArgsA1), Call("h", ArgsA1)>>],
     \* <tool_call> {"name":"t","arguments":{"a":"}{{\""}}</tool_call>
     TagBraces |-> [text |-> <<"<tool_call>", " ">> \o ObjA("t", TextBraces)
                             \o <<"</tool_call>">>,
                    calls |-> <<Call("t", ArgsBraces)>>],
     \* <function=y>{"a":1}</function> and <function=y>5</function>
     FnArgs |-> [text |-> <<"<function=y>">> \o TextA1 \o <<"</function>">>,
                 calls |-> <<Call("y", ArgsA1)>>],
     FnFive |-> [text |-> <<"<function=y>", "5", "</function>">>,
                 calls |-> <<Call("y", [kind |-> "number",
                                        text |-> <<"5">>])>>]]

\* response.message.tool_calls, when the model answers with structured
\* calls.
NativeCalls == {<<>>, Pieces["ObjX"].calls}

\* The model writes one more piece of message.content.
ModelWrites ==
    /\ extract.pc = "compose"
    /\ Len(extract.pieces) < MaxPieces
    /\ \E p \in DOMAIN Pieces :
           extract' = [extract EXCEPT !.pieces = Append(@, p),
                                      !.text = @ \o Pieces[p].text]
    /\ UNCHANGED outsideExtract

\* this.client.chat() resolves and chat() takes the tool calls of the
\* response.
ModelResponds ==
    /\ extract.pc = "compose"
    /\ \E native \in NativeCalls :
           extract' = [extract EXCEPT
               !.pc = "extracted",
               !.native = native,
               !.toolCalls = ResponseToolCalls(native, extract.text)]
    /\ UNCHANGED outsideExtract

\* The next iteration of the loop calls the model again.
NextResponse ==
    /\ extract.pc = "extracted"
    /\ extract' = [pc |-> "compose", pieces |-> <<>>, text |-> <<>>,
                   native |-> <<>>, toolCalls |-> <<>>]
    /\ UNCHANGED outsideExtract

NextExtract ==
    \/ ModelWrites
    \/ ModelResponds
    \/ NextResponse

SpecExtract == Init /\ [][NextExtract]_vars

----------------------------------------------------------------------------
(* confirm.ts, and the tools that ask for approval: write-file.ts,         *)
(* edit-file.ts, run-command.ts                                            *)

\* The levels a tool can ask with: write_file asks low for a new file,
\* medium for an existing one, high outside the project; edit_file starts at
\* medium; run_command takes the level of assessCommandDanger.
ToolLevels ==
    [write_file |-> {"low", "medium", "high"},
     edit_file |-> {"medium", "high"},
     run_command |-> {"low", "high", "critical"}]

\* What the user types at the prompt, character by character.
PromptAnswers ==
    {<<"y">>, <<"Y">>, <<"y", "e", "s">>, <<" ", "Y", "E", "S", " ">>,
     <<"y", "e", "s", "s">>, <<"n">>, <<>>}

\* String.prototype.toLowerCase on the characters of the answers.
ToLowerCase(str) ==
    [k \in 1..Len(str) |->
        CASE str[k] = "Y" -> "y"
          [] str[k] = "E" -> "e"
          [] str[k] = "S" -> "s"
          [] OTHER -> str[k]]

\* Faulty variant: auto-approve mode approves every level.
AutoApprovesAll(autoApprove, level) == autoApprove

\* confirmAction, first branch: approved without a prompt.
AutoApproves(autoApprove, level) == autoApprove /\ level # "critical"

\* confirmAction, the callback of rl.question: the value the promise
\* resolves with.
Approves(level, answer) ==
    LET trimmed == ToLowerCase(Trim(answer))
    IN  IF level = "critical" THEN trimmed = <<"y", "e", "s">>
        ELSE trimmed = <<"y">> \/ trimmed = <<"y", "e", "s">>

\* Faulty variant: the tool goes on whatever confirmAction returned.
AfterConfirmAlways(tool, approved, io) ==
    [effects |-> <<"spawn">>, ret |-> [success |-> TRUE]]

\* execute() after `await confirmAction(...)`: the cancelled result, or the
\* effects in order and the result. io tells whether fs.writeFile succeeded
\* (a rejection ends in the catch block) and whether the command exited
\* with code 0.
AfterConfirm(tool, approved, io) ==
    IF ~approved
    THEN [effects |-> <<>>,
          ret |-> [success |-> FALSE, error |-> "cancelledByUser"]]
    ELSE LET before == CASE tool = "write_file" -> <<"mkdir">>
                         [] tool = "edit_file" -> <<"createCheckpoint">>
                         [] tool = "run_command" -> <<>>
             effect == IF tool = "run_command" THEN <<"spawn">>
                       ELSE IF io THEN <<"writeFile">> ELSE <<>>
         IN  [effects |-> before \o effect,
              ret |-> IF io THEN [success |-> TRUE]
                      ELSE [success |-> FALSE, error |-> "failed"]]

\* /yes, or --yes on the command line.
SetAutoApprove ==
    /\ guard.pc # "prompt"
    /\ ~guard.autoApprove
    /\ guard' = [guard EXCEPT !.autoApprove = TRUE]
    /\ UNCHANGED <<outsideUnits, context, scan>>

\* execute() of one of the three tools up to the prompt. A file tool
\* returns before asking when the path is protected (and edit_file when the
\* file or the search text is missing); with auto-approval the call runs to
\* its end.
ToolExecute ==
    /\ guard.pc # "prompt"
    /\ \E tool \in DOMAIN ToolLevels, blocked \in BOOLEAN, io \in BOOLEAN :
       \E level \in ToolLevels[tool] :
        LET call == [autoApprove |-> guard.autoApprove,
                     auto |-> guard.autoApprove, tool |-> tool,
                     level |-> level, answer |-> <<>>]
            end == AfterConfirm(tool, TRUE, io)
        IN  /\ blocked => tool # "run_command"
            /\ guard' =
                 IF blocked
                 THEN call @@ [pc |-> "done", prompted |-> FALSE,
                               approved |-> FALSE, effects |-> <<>>,
                               ret |-> [success |-> FALSE,
                                        error |-> "blocked"]]
                 ELSE IF AutoApproves(guard.autoApprove, level)
                 THEN call @@ [pc |-> "done", prompted |-> FALSE,
                               approved |-> TRUE, effects |-> end.effects,
                               ret |-> end.ret]
                 ELSE call @@ [pc |-> "prompt", prompted |-> TRUE,
                               approved |-> FALSE, effects |-> <<>>,
                               ret |-> <<>>]
    /\ UNCHANGED <<outsideUnits, context, scan>>

\* The user answers the prompt: confirmAction resolves and execute() runs
\* to its end.
UserAnswers ==
    /\ guard.pc = "prompt"
    /\ \E answer \in PromptAnswers, io \in BOOLEAN :
        LET approved == Approves(guard.level, answer)
            end == AfterConfirm(guard.tool, approved, io)
        IN  guard' = [guard EXCEPT !.pc = "done", !.answer = answer,
                                   !.approved = approved,
                                   !.effects = end.effects,
                                   !.ret = end.ret]
    /\ UNCHANGED <<outsideUnits, context, scan>>

NextGuard ==
    \/ SetAutoApprove
    \/ ToolExecute
    \/ UserAnswers

SpecGuard == Init /\ [][NextGuard]_vars

----------------------------------------------------------------------------
(* context.ts: ContextManager.addMessage and trimIfNeeded *)

\* messages.reduce((sum, m) => sum + content.length, 0)
RECURSIVE TotalChars(_)
TotalChars(messages) ==
    IF messages = <<>> THEN 0
    ELSE Head(messages).length + TotalChars(Tail(messages))

\* estimatedTokens > this.maxTokenEstimate * 0.8, with
\* estimatedTokens = totalChars / 3: both sides multiplied by 30.
OverLimit(totalChars, maxTokenEstimate) ==
    totalChars * 10 > maxTokenEstimate * 24

\* trimIfNeeded: estimatedTokens is a constant computed before the loop;
\* the loop assigns totalChars again after each splice(0, 2) and never
\* reads it.
trimIfNeeded(messages, maxTokenEstimate) ==
    LET estimatedChars == TotalChars(messages)
        RECURSIVE While(_)
        While(m) ==
            IF OverLimit(estimatedChars, maxTokenEstimate) /\ Len(m) > 2
            THEN While(SubSeq(m, 3, Len(m)))
            ELSE m
    IN  While(messages)

\* addMessage: push, then trimIfNeeded.
addMessage ==
    /\ Len(context.messages) < MaxHistory
    /\ \E role \in Roles, length \in ContentLengths :
        LET pushed == Append(context.messages,
                             [role |-> role, length |-> length])
        IN  context' = [context EXCEPT
                !.messages = trimIfNeeded(pushed, context.maxTokenEstimate),
                !.op = "addMessage",
                !.pushed = pushed]
    /\ UNCHANGED <<outsideUnits, guard, scan>>

\* clear: /clear empties the history.
clear ==
    /\ context.messages # <<>>
    /\ context' = [context EXCEPT !.messages = <<>>, !.op = "clear",
                                  !.pushed = <<>>]
    /\ UNCHANGED <<outsideUnits, guard, scan>>

NextContext ==
    \/ addMessage
    \/ clear

SpecContext == Init /\ [][NextContext]_vars

----------------------------------------------------------------------------
(* utils.ts: extractBalancedJsonObjects, pass by pass *)

\* The texts scanned: up to MaxScanPieces pieces, each a brace, a quote, a
\* backslash or one of the two quoted keys a candidate is tested for.
MaxScanPieces == 4
ScanPieces ==
    {<<"{">>, <<"}">>, <<Quote>>, <<Backslash>>,
     <<Quote, "name", Quote>>, <<Quote, "arguments", Quote>>}

\* One turn of `while (i < text.length)` up to the for loop: the return
\* when the text is used up, i++ on anything but an opening brace, and on
\* a brace the initial values of the for loop.
WhileTurn(s) ==
    IF s.i > Len(s.text) THEN [s EXCEPT !.pc = "done"]
    ELSE IF s.text[s.i] = "{"
    THEN [s EXCEPT !.pc = "for", !.start = s.i, !.depth = 0,
                   !.inString = FALSE, !.escaped = FALSE, !.j = s.i]
    ELSE [s EXCEPT !.i = @ + 1]

\* The statements after the for loop, i not moving on from the brace.
AfterForStays(s) == [s EXCEPT !.pc = "while", !.i = s.start]

\* The statements after the for loop: `if (depth !== 0) i = start + 1`.
AfterFor(s) ==
    [s EXCEPT !.pc = "while", !.i = IF s.depth # 0 THEN s.start + 1 ELSE @]

\* One pass of the for loop, or its end with the statements after it. The
\* first four branches end in `continue`; Rest is the end of the body for
\* the others, `if (j === text.length - 1) i = start + 1`, and j++.
ForPass(s) ==
    LET t == s.text
        Includes(c, key) ==
            \E k \in 1..(Len(c) - 2) :
                c[k] = Quote /\ c[k + 1] = key /\ c[k + 2] = Quote
        Break(candidate) ==
            AfterFor([s EXCEPT
                !.depth = 0,
                !.results = IF /\ Includes(candidate, "name")
                               /\ Includes(candidate, "arguments")
                            THEN Append(@, candidate) ELSE @,
                !.i = s.j + 1])
        Rest(r) ==
            [r EXCEPT !.i = IF s.j = Len(t) THEN s.start + 1 ELSE @,
                      !.j = @ + 1]
    IN  IF s.j > Len(t) THEN AfterFor(s)
        ELSE IF s.escaped THEN [s EXCEPT !.escaped = FALSE, !.j = @ + 1]
        ELSE IF t[s.j] = Backslash /\ s.inString
        THEN [s EXCEPT !.escaped = TRUE, !.j = @ + 1]
        ELSE IF t[s.j] = Quote THEN [s EXCEPT !.inString = ~@, !.j = @ + 1]
        ELSE IF s.inString THEN [s EXCEPT !.j = @ + 1]
        ELSE IF t[s.j] = "{" THEN Rest([s EXCEPT !.depth = @ + 1])
        ELSE IF t[s.j] = "}" /\ s.depth - 1 = 0
        THEN Break(SubSeq(t, s.start, s.j))
        ELSE IF t[s.j] = "}" THEN Rest([s EXCEPT !.depth = @ - 1])
        ELSE Rest(s)

\* The text grows by one piece.
ScanCompose ==
    /\ scan.pc = "compose"
    /\ scan.pieces < MaxScanPieces
    /\ \E piece \in ScanPieces :
        scan' = [scan EXCEPT !.text = @ \o piece, !.pieces = @ + 1]
    /\ UNCHANGED <<outsideUnits, guard, context>>

\* extractBalancedJsonObjects(text) is called: results = [], i = 0.
ScanCall ==
    /\ scan.pc = "compose"
    /\ scan' = [scan EXCEPT !.pc = "while"]
    /\ UNCHANGED <<outsideUnits, guard, context>>

ScanWhile ==
    /\ scan.pc = "while"
    /\ scan' = WhileTurn(scan)
    /\ UNCHANGED <<outsideUnits, guard, context>>

ScanFor ==
    /\ scan.pc = "for"
    /\ scan' = ForPass(scan)
    /\ UNCHANGED <<outsideUnits, guard, context>>

NextScan ==
    \/ ScanCompose
    \/ ScanCall
    \/ ScanWhile
    \/ ScanFor

\* The function is synchronous code: a step that can be taken is taken.
SpecScan == Init /\ [][NextScan]_vars /\ WF_vars(NextScan)

----------------------------------------------------------------------------
(* Properties of the agent loop and the dispatcher *)

IsErrorEnvelope(content) == content.json /\ "error" \in DOMAIN content

\* The tool a returned string speaks about.
NameOfReturn(content) ==
    IF "error" \in DOMAIN content THEN content.error[2] ELSE content.output[2]

\* C1: chat() never makes more than MAX_TOOL_ITERATIONS model calls; once
\* that many calls have each returned invocations whose dispatches all
\* returned, the loop guard is closed and only the fallback remains; and the
\* fallback message is returned after exactly MAX_TOOL_ITERATIONS calls.
IterationCapEnforced ==
    /\ modelCalls <= MAX_TOOL_ITERATIONS
    /\ iteration = modelCalls
    /\ (pc = "loop" /\ modelCalls = MAX_TOOL_ITERATIONS) =>
            ~LoopGuard(iteration)
    /\ chatResult = "fallback" =>
            (pc = "done" /\ modelCalls = MAX_TOOL_ITERATIONS)

\* The fallback is reached in a chat whose last turn saw an error envelope
\* (a denial, an unknown tool or a failed handler).
FallbackAfterToolErrors ==
    /\ chatResult = "fallback"
    /\ modelCalls = MAX_TOOL_ITERATIONS
    /\ \E k \in 2..Len(turnMessages) : IsErrorEnvelope(turnMessages[k].content)

\* C2: chat() settles with a thrown error only when the model call failed.
OnlyModelFailureAborts ==
    chatResult \in {"none", "final", "fallback", "modelNotFound",
                    "transportError"}

\* C3: executeTool never throws: every call on a registered tool ends in a
\* returned string.
ExecuteToolNeverThrows == exec.phase # "threw"

\* C4: a call on a registered tool made in Plan mode with a name outside the
\* allow-list returns the /approve denial without entering the handler; every
\* other call on a registered tool enters the handler.
PlanModeGate ==
    (exec.phase # "none" /\ exec.registered) =>
        IF exec.mode = "plan" /\ exec.name \notin READ_ONLY_TOOLS
        THEN /\ ~exec.ran
             /\ exec.phase = "returned"
             /\ exec.result = ModeDeniedReturn(exec.name, "plan")
        ELSE exec.ran

\* A denied call on a tool registered at run time, in Plan mode.
PlanDenialSeen ==
    /\ exec.phase = "returned"
    /\ exec.registered
    /\ exec.mode = "plan"
    /\ exec.name = McpToolName
    /\ ~exec.ran

\* C5: the mode only moves along Normal->Plan, Act->Plan, Plan->Act,
\* Plan->Normal and Act->Normal.
OnlyListedModeEdges ==
    [][mode' # mode =>
        <<mode, mode'>> \in {<<"normal", "plan">>, <<"act", "plan">>,
                             <<"plan", "act">>, <<"plan", "normal">>,
                             <<"act", "normal">>}]_vars

\* C6: during a turn the tail of the transcript is the assistant turn
\* followed by the tool turns of invocations 1..idx-1 in that order, each
\* speaking about its own invocation; a dispatch is in flight only while the
\* loop awaits it, and the next one starts with all earlier results appended.
SequentialToolTurns ==
    pc \in {"tools", "await"} =>
        /\ Len(turnMessages) = idx
        /\ idx <= Len(toolCalls) + 1
        /\ turnMessages[1] = AssistantMsg(toolCalls)
        /\ \A k \in 2..Len(turnMessages) :
            /\ turnMessages[k].role = "tool"
            /\ turnMessages[k].call = k - 1
            /\ NameOfReturn(turnMessages[k].content) = toolCalls[k - 1].name
        /\ pc = "tools" => exec.phase # "running"
        /\ pc = "await" =>
            (exec.phase # "none" /\ exec.name = toolCalls[idx].name)

\* A turn of two different invocations whose tool turns have all been pushed.
TwoResultsInOrder ==
    /\ pc = "tools"
    /\ Len(toolCalls) = 2
    /\ idx = 3
    /\ toolCalls[1].name # toolCalls[2].name
    /\ Len(turnMessages) = 3

\* C7: a call with a name that is not in the registry returns the
\* unknown-tool envelope and enters no handler.
UnknownToolReported ==
    (exec.phase # "none" /\ exec.name \notin tools) =>
        /\ exec.phase = "returned"
        /\ ~exec.ran
        /\ exec.result = UnknownToolReturn(exec.name)

\* The unknown name called in Plan mode with malformed arguments.
UnknownToolSeen ==
    /\ exec.phase = "returned"
    /\ exec.name = UnknownToolName
    /\ exec.mode = "plan"
    /\ exec.args = "malformed"
    /\ IsErrorEnvelope(exec.result)

----------------------------------------------------------------------------
(* Properties of the provider connection *)

\* The buffer holds a whole response line carrying this id.
HasWholeLine(buf, id) ==
    \E j \in 1..(Len(buf) - 1) :
        buf[j] = LineHead(id) /\ buf[j + 1].part = "tail"

HasHead(buf, id) == \E j \in 1..Len(buf) : buf[j] = LineHead(id)

\* C8: every promise that a response settled holds the result or the error
\* of a line carrying its own id, and a listener that has received its whole
\* line, in however many chunks, has settled.
OwnResponseOnly ==
    \A k \in DOMAIN requests :
        LET r == requests[k]
        IN  /\ r.status = "resolved" => r.value = <<"result", r.id>>
            /\ (r.status = "rejected" /\ r.value # <<"timeout">>) =>
                    r.value = <<"error", r.id>>
            /\ r.listening => ~HasWholeLine(r.buffer, r.id)

\* Two requests pending together, answered in the reverse of the send order,
\* each with its own result.
AnsweredOutOfOrder ==
    /\ Len(requests) = 2
    /\ requests[1].value = <<"result", requests[1].id>>
    /\ requests[2].value = <<"result", requests[2].id>>
    /\ requests[2].settledAt < requests[1].settledAt

\* C9: ids are issued in strictly increasing order; a settled promise keeps
\* its outcome; and a response settles a pending promise only in a step that
\* delivers stdout data after which its listener has seen its own id.
IdsFreshSettledOnce ==
    [][/\ \A k \in DOMAIN requests :
            /\ k \in DOMAIN requests'
            /\ requests'[k].id = requests[k].id
            /\ requests[k].status # "pending" =>
                /\ requests'[k].status = requests[k].status
                /\ requests'[k].value = requests[k].value
            /\ (/\ requests[k].status = "pending"
                /\ requests'[k].status # "pending"
                /\ requests'[k].value # <<"timeout">>) =>
                /\ Len(wire') < Len(wire)
                /\ HasHead(requests[k].buffer
                            \o SubSeq(wire, 1, Len(wire) - Len(wire')),
                           requests[k].id)
       /\ \A k \in DOMAIN requests' \ DOMAIN requests :
            /\ requests'[k].id = conn'.requestId
            /\ \A j \in DOMAIN requests : requests[j].id < requests'[k].id
      ]_vars

\* Request 1 was answered; its id then came a second time while request 2
\* was listening, and request 2 is still pending.
ConsumedIdSeenAgain ==
    /\ Len(requests) = 2
    /\ requests[1].status = "resolved"
    /\ requests[2].status = "pending"
    /\ requests[2].listening
    /\ Len(requests[2].buffer) = 4
    /\ requests[2].buffer[1] = LineHead(requests[1].id)
    /\ requests[2].buffer[3] = LineHead(requests[1].id)

\* C10: a timer that fires rejects its own promise with the timeout error
\* and touches neither the connection nor any other request; the rejection
\* stands when the response arrives late, and any request resolved afterwards
\* holds its own result.
TimeoutRejectsOnly ==
    [][\A k \in DOMAIN requests :
        /\ (requests[k].timer /\ ~requests'[k].timer
                /\ requests'[k].listening) =>
            /\ requests'[k].status = "rejected"
            /\ requests'[k].value = <<"timeout">>
            /\ conn'.alive = conn.alive
            /\ conn'.registered = conn.registered
            /\ \A j \in DOMAIN requests \ {k} : requests'[j] = requests[j]
        /\ requests[k].value = <<"timeout">> =>
            /\ requests'[k].status = "rejected"
            /\ requests'[k].value = <<"timeout">>
        /\ requests'[k].status = "resolved" =>
            requests'[k].value = <<"result", requests[k].id>>
      ]_vars

\* Request 1 timed out and its response came late; request 2, sent on the
\* same connection, was answered; the provider is alive and registered.
AnsweredAfterTimeout ==
    /\ Len(requests) = 2
    /\ requests[1].value = <<"timeout">>
    /\ ~requests[1].listening
    /\ requests[2].value = <<"result", requests[2].id>>
    /\ requests[1].settledAt < requests[2].settledAt
    /\ conn.alive
    /\ conn.registered

----------------------------------------------------------------------------
(* Properties of provider discovery *)

\* C11: whatever the configured providers do during discovery, the host
\* keeps running, and when initializeMCP has returned the registered tools
\* are exactly the tools of the providers whose spawn and handshake
\* succeeded.
FailedProviderSkipped ==
    /\ boot.hostAlive
    /\ boot.pc = "returned" =>
        boot.registered =
            UNION {CatalogOf(i) : i \in {j \in 1..Len(boot.cfg) :
                                            boot.cfg[j] = "ok"}}

----------------------------------------------------------------------------
(* Properties of background tasks *)

\* C12: once the timer has found the command running, the record has
\* done = true and exit code -1, also after the 'close' event of the
\* signalled process.
TimeoutSentinelKept ==
    task.timedOut => (task.done /\ task.exitCode = <<-1>>)

\* C13: the stdout buffer and the stderr buffer never hold more than
\* MAX_OUTPUT_LENGTH characters.
BuffersBounded ==
    /\ StrLen(task.stdout) <= MAX_OUTPUT_LENGTH
    /\ StrLen(task.stderr) <= MAX_OUTPUT_LENGTH

\* C14: the stdout buffer is the last min(total, MAX_OUTPUT_LENGTH)
\* characters of everything stdout has delivered.
StdoutKeepsNewest ==
    LET total == task.outTotal
        kept == IF total < MAX_OUTPUT_LENGTH THEN total ELSE MAX_OUTPUT_LENGTH
    IN  task.stdout = IF total = 0 THEN <<>>
                      ELSE <<[from |-> total - kept + 1, to |-> total]>>

\* Three chunks were delivered, the buffer was trimmed twice and the last
\* chunk was a single character.
StdoutTrimmedTwice ==
    /\ task.chunks = 3
    /\ task.outTotal = 2 * MAX_OUTPUT_LENGTH + 2
    /\ StrLen(task.stdout) = MAX_OUTPUT_LENGTH

----------------------------------------------------------------------------
(* Properties of parallel_agents *)

\* C15: a call with n tasks returns min(n, MAX_CONCURRENT) entries, and
\* entry i carries the title and the outcome of input task i, whatever the
\* order in which the sub-tasks settled.
AggregateInInputOrder ==
    fanout.pc = "returned" =>
        /\ DOMAIN fanout.ret.results = Limited(fanout.n)
        /\ \A i \in Limited(fanout.n) :
            /\ fanout.ret.results[i].title = i
            /\ fanout.ret.results[i].result[2] = i
            /\ fanout.ret.results[i].result[1]
                    \in {"fulfilled", "rejected", "timeout"}

\* Five tasks were given, the four accepted ones settled in the reverse of
\* the input order with different outcomes, and the call has returned.
ReturnedAfterReverseCompletion ==
    /\ fanout.pc = "returned"
    /\ fanout.n = 5
    /\ fanout.order = <<4, 3, 2, 1>>
    /\ fanout.ret.results[1].result[1] = "timeout"
    /\ fanout.ret.results[4].result[1] = "fulfilled"

\* C16: the call has returned only when every accepted sub-task has
\* settled; the aggregate then has one entry per accepted sub-task, and
\* success is reported exactly when the race of every one of them was won
\* by the runner's answer.
SuccessIffAllSucceeded ==
    /\ fanout.ret.settled <=> fanout.pc = "returned"
    /\ fanout.pc = "returned" =>
        /\ \A i \in Limited(fanout.n) : fanout.entries[i] # Pending
        /\ Len(fanout.ret.results) = Cardinality(Limited(fanout.n))
        /\ fanout.ret.success <=>
                \A i \in Limited(fanout.n) :
                    fanout.entries[i].result[1] = "fulfilled"

\* The first sub-task to settle failed, the others settled after it, one of
\* them with an answer, and the call returned failure with all entries.
FailureDidNotShortCircuit ==
    /\ fanout.pc = "returned"
    /\ Len(fanout.order) = MAX_CONCURRENT
    /\ fanout.entries[fanout.order[1]].result[1] = "rejected"
    /\ fanout.entries[fanout.order[MAX_CONCURRENT]].success
    /\ ~fanout.ret.success

----------------------------------------------------------------------------
(* Properties of the checkpoints *)

\* C17: when createCheckpoint returned true in tree S and only the files
\* were changed since, a rollback during which git does not fail for a reason
\* of its environment leaves the working tree in state S.
RoundTripRestores ==
    [][(/\ repo'.last.op = "rollback"
        /\ ~repo'.last.envFail
        /\ repo.last.op \in {"mutate", "edit"}
        /\ repo.mark.live) => repo'.tree = repo.mark.S]_vars

\* C18: a createCheckpoint call leaves the content of the working tree as it
\* was, whatever it returns.
CheckpointKeepsTree ==
    [][(repo'.last.op = "create" /\ repo' # repo) =>
            repo'.tree = repo.tree]_vars

\* C19: a rollback restores the most recent checkpoint only, and it leaves
\* every older checkpoint on the list.
OnlyNewestRestorable ==
    [][(repo'.last.op = "rollback" /\ repo'.last.ret) =>
        /\ repo'.last.popped[1].newest
        /\ \A k \in DOMAIN repo.stashes :
            (repo.stashes[k].ours /\ ~repo.stashes[k].newest) =>
                \E j \in DOMAIN repo'.stashes :
                    repo'.stashes[j].w = repo.stashes[k].w]_vars

\* C20: outside a repository createCheckpoint and rollbackToLastCheckpoint
\* return false, start no mutating git command and leave the files alone,
\* and edit_file writes its new content all the same.
NoRepositoryNoOp ==
    [][(~repo.isRepo /\ repo' # repo
            /\ repo'.last.op \in {"create", "rollback", "edit"}) =>
        /\ ~repo'.last.ret
        /\ repo'.last.cmds = {}
        /\ repo'.tree["n"] = repo.tree["n"]
        /\ IF repo'.last.op = "edit"
           THEN repo'.tree["a"] \in {"v1", "v2"} \ {repo.tree["a"]}
           ELSE repo'.tree["a"] = repo.tree["a"]]_vars

\* Outside a repository a new file was created and edit_file then changed
\* the tracked file; its checkpoint returned false.
EditedWithoutRepository ==
    /\ ~repo.isRepo
    /\ repo.last.op = "edit"
    /\ ~repo.last.ret
    /\ repo.tree = [p \in Paths |-> "v1"]

----------------------------------------------------------------------------
(* Properties of a turn that ends in an error or at the iteration cap *)

\* C27: when the model call throws, chat() throws at once and handleChat
\* adds no assistant message; the error of a model that is not installed
\* is replaced by the one that tells to pull it, every other error is
\* rethrown as it is.
ModelFailureRethrown ==
    session.thrown # <<>> =>
        /\ pc = "done"
        /\ chatResult \in {"modelNotFound", "transportError"}
        /\ session.history = <<UserMsg>>
        /\ session.rethrown =
               IF session.thrown = <<"model", "x", "not found">>
               THEN <<"model x is missing", "ollama pull x">>
               ELSE session.thrown

\* C28: a sub-task of parallel_agents that ran into its timeout is reported
\* as failed with the timeout message and does nothing afterwards.
TimedOutSubTaskStopped ==
    \A i \in DOMAIN fanout.entries :
        fanout.entries[i].result[1] = "timeout" =>
            /\ ~fanout.entries[i].success
            /\ i \notin fanout.late

\* C29: when chat() returns the fallback message, the context holds the
\* assistant turns and the tool turns of the loop, and the fallback message
\* after them.
TranscriptKeptAtCap ==
    chatResult = "fallback" =>
        /\ session.history[Len(session.history)] = FallbackMsg
        /\ \A k \in 1..Len(turnMessages) :
               \E h \in 1..Len(session.history) :
                   session.history[h] = turnMessages[k]

\* The tokens of a text that are not the newline.
RECURSIVE WithoutNewlines(_)
WithoutNewlines(text) ==
    IF text = <<>> THEN <<>>
    ELSE IF Head(text) = "\n" THEN WithoutNewlines(Tail(text))
    ELSE <<Head(text)>> \o WithoutNewlines(Tail(text))

\* The texts of the blocks of type text, one after the other.
RECURSIVE TextsOf(_)
TextsOf(content) ==
    IF content = <<>> THEN <<>>
    ELSE (IF Head(content).type = "text" THEN Head(content).text ELSE <<>>)
         \o TextsOf(Tail(content))

\* C30: a call of mcp_P_T that the provider answers has sent tools/call
\* with the name T and the given arguments to P; an error response gives a
\* failure, a result gives a success whose output is the texts of the
\* blocks of type text, in order, with one newline between two of them.
AdaptedCallMapsAnswer ==
    (adapter.pc = "returned" /\ adapter.answer # <<>>) =>
        LET answer == adapter.answer[1]
            ret == adapter.ret[1]
            nText == Cardinality({k \in 1..Len(answer.content) :
                                     answer.content[k].type = "text"})
        IN  /\ adapter.sent =
                   <<[to |-> adapter.provider, method |-> "tools/call",
                      params |-> [name |-> adapter.tool,
                                  arguments |-> adapter.args]]>>
            /\ answer.error => ~ret.success
            /\ ~answer.error =>
                   /\ ret.success
                   /\ WithoutNewlines(ret.output) = TextsOf(answer.content)
                   /\ Len(ret.output) - Len(WithoutNewlines(ret.output))
                          = IF nText = 0 THEN 0 ELSE nText - 1

\* A result of a text block, a block of another type and a text block.
MixedBlocksJoined ==
    /\ adapter.pc = "returned"
    /\ adapter.provider = "p2"
    /\ adapter.answer # <<>>
    /\ ~adapter.answer[1].error
    /\ Len(adapter.answer[1].content) = 3
    /\ adapter.answer[1].content[2].type = "resource"
    /\ adapter.ret[1].success
    /\ adapter.ret[1].output = <<"a", "\n", "b">>

----------------------------------------------------------------------------
(* Properties of the tool-call extraction *)

\* The calls the pieces of a response encode, in the order of the text.
RECURSIVE Encoded(_)
Encoded(ps) ==
    IF ps = <<>> THEN <<>> ELSE Pieces[Head(ps)].calls \o Encoded(Tail(ps))

\* The sequence a is b with some entries left out, the rest in b's order.
RECURSIVE LeftInOrder(_, _)
LeftInOrder(a, b) ==
    IF a = <<>> THEN TRUE
    ELSE IF b = <<>> THEN FALSE
    ELSE IF Head(a) = Head(b) THEN LeftInOrder(Tail(a), Tail(b))
    ELSE LeftInOrder(a, Tail(b))

\* C21: the tool calls chat() takes from a response are those of the first
\* of the four stages (message.tool_calls, fenced blocks, balanced objects,
\* XML tags) that gives at least one call, and of that stage alone.
FirstStageWins ==
    extract.pc = "extracted" =>
        LET stages == <<extract.native, FencedCalls(extract.text),
                        ScannedCalls(extract.text),
                        parseXmlToolCalls(extract.text)>>
            yielding == {k \in 1..4 : stages[k] # <<>>}
        IN  extract.toolCalls =
                IF yielding = {} THEN <<>>
                ELSE stages[CHOOSE k \in yielding : \A h \in yielding : k <= h]

\* A fenced block and a bare object in one text: the scan finds two calls,
\* the response gives the one of the block.
FencedBlockWon ==
    /\ extract.pc = "extracted"
    /\ extract.native = <<>>
    /\ extract.pieces = <<"FenceOne", "ObjX">>
    /\ Len(ScannedCalls(extract.text)) = 2
    /\ extract.toolCalls = Pieces["FenceOne"].calls

\* C22: the arguments of every call taken from a response are an object.
ArgumentsAlwaysMap ==
    extract.pc = "extracted" =>
        \A k \in 1..Len(extract.toolCalls) :
            extract.toolCalls[k].arguments.kind = "object"

EachPlainObjectOnItsOwn ==
    (/\ extract.pc = "extracted"
     /\ extract.native = <<>>
     /\ \A k \in 1..Len(extract.pieces) :
            extract.pieces[k] \in {"ObjX", "ObjFn", "NoArgs", "NotJson",
                                   "Braces"})
    => extract.toolCalls = Encoded(extract.pieces)

\* An object that is not JSON, one of shape {function: ...} and one without
\* arguments: one call.
InvalidObjectsDropped ==
    /\ extract.pc = "extracted"
    /\ extract.native = <<>>
    /\ extract.pieces = <<"NotJson", "ObjFn", "NoArgs">>
    /\ extract.toolCalls = Pieces["ObjFn"].calls

\* C25: the calls taken from the text of a response are in the order in
\* which they appear in the text: they are the calls the text encodes, some
\* possibly left out, none moved before one that precedes it.
CallsInTextOrder ==
    (extract.pc = "extracted" /\ extract.native = <<>>) =>
        LeftInOrder(extract.toolCalls, Encoded(extract.pieces))

\* C26: every fenced block made of tool-call objects gives one call per
\* object, in order; a text that is one block with one object gives
\* exactly that call.
FencedBlockYieldsEachObject ==
    (extract.pc = "extracted" /\ extract.native = <<>>) =>
        /\ \A k \in 1..Len(extract.pieces) :
               extract.pieces[k] \in {"FenceOne", "FenceTwo"} =>
                   \E n \in 0..(Len(extract.toolCalls)
                                  - Len(Pieces[extract.pieces[k]].calls)) :
                       SubSeq(extract.toolCalls, n + 1,
                              n + Len(Pieces[extract.pieces[k]].calls))
                           = Pieces[extract.pieces[k]].calls
        /\ extract.pieces = <<"FenceOne">> =>
               extract.toolCalls = Pieces["FenceOne"].calls

----------------------------------------------------------------------------
(* Properties of the tools: results, approval, checkpoints, resources *)

\* C31: the string executeTool returns for a failed call, which chat()
\* pushes as the tool turn, is a JSON object (not the handler's plain
\* output) with an error field, whichever tool failed and whether or not its
\* ToolResult set one.
FailedTurnHasError ==
    (exec.phase = "returned" /\ exec.result.json) =>
        "error" \in DOMAIN exec.result

\* C32: once a background command has been launched, a status query for
\* its identifier returns the record of the task as it is then: the done
\* flag, the exit code and the captured output.
StatusQueryReturnsRecord ==
    task.query # <<>> =>
        /\ task.query[1].success
        /\ task.query[1].output =
               <<task.done, task.exitCode, task.stdout, task.stderr>>

\* C33: a call of write_file, edit_file or run_command has written, created
\* or spawned something only if confirmAction returned true for it; a call
\* the user declined has ended in a failure result with nothing done.
EffectsOnlyAfterApproval ==
    /\ guard.effects # <<>> => guard.approved
    /\ (guard.pc = "done" /\ guard.prompted /\ ~guard.approved) =>
           /\ guard.ret = [success |-> FALSE, error |-> "cancelledByUser"]
           /\ guard.effects = <<>>

\* A call the user declined, and one the user approved that did its work.
DeclinedCallDidNothing ==
    /\ guard.pc = "done" /\ guard.prompted /\ ~guard.approved
    /\ guard.tool = "write_file" /\ guard.answer = <<"n">>

CheckpointBeforeEveryWrite ==
    /\ \A k \in 1..Len(guard.effects) :
           guard.effects[k] = "writeFile" =>
               \E j \in 1..(k - 1) : guard.effects[j] = "createCheckpoint"
    /\ ~guard.approved =>
           \A k \in 1..Len(guard.effects) :
               guard.effects[k] # "createCheckpoint"

\* C36: once connectToServer has returned for a provider, the process it
\* spawned is in the connection registry (where closeMCP will find and kill
\* it); children holds the processes the host spawned and never killed.
NoUntrackedProvider ==
    \A i \in boot.children :
        (boot.pc = "returned" \/ (boot.pc # "crashed" /\ i < boot.i)) =>
            i \in boot.connections

\* C37: in the aggregate of parallel_agents, a sub-task whose model call
\* failed has success=false and makes the overall result unsuccessful; an
\* entry has success=true only when its sub-agent got an answer from the
\* model.
SubAgentFailureReported ==
    fanout.pc = "returned" =>
        \A j \in DOMAIN fanout.ret.results :
            /\ fanout.ret.results[j].success => fanout.calls[j] = "answer"
            /\ fanout.calls[j] = "modelFails" => ~fanout.ret.success

\* C38: a rollbackToLastCheckpoint call that returns false leaves the
\* working tree, the index and the stash list as they were before the call.
FailedRollbackChangesNothing ==
    [][(repo'.last.op = "rollback" /\ ~repo'.last.ret) =>
            /\ repo'.tree = repo.tree
            /\ repo'.index = repo.index
            /\ repo'.stashes = repo.stashes]_vars


\* C39: after addMessage, messages were removed only while the history
\* still exceeded 80% of the maximum: the history as it was before the last
\* removal of two messages was over the limit, and a history within the
\* limit is left as pushed.
TrimmingStopsWithinLimit ==
    context.op = "addMessage" =>
        LET pushed == context.pushed
            removed == Len(pushed) - Len(context.messages)
        IN  /\ removed > 0 =>
                  OverLimit(TotalChars(SubSeq(pushed, removed - 1,
                                              Len(pushed))),
                            context.maxTokenEstimate)
            /\ ~OverLimit(TotalChars(pushed), context.maxTokenEstimate) =>
                  context.messages = pushed


\* C40: extractBalancedJsonObjects returns on every text: at each turn of
\* the outer loop, with or without a run of the inner loop, i ends greater
\* than it started (start is i as the turn found it); the inner loop moves
\* j on at each pass; the depth is never negative; the return is reached.
ScanTerminates ==
    /\ [][/\ (scan.pc = "while" /\ scan'.pc = "while") => scan'.i > scan.i
          /\ (scan.pc = "while" /\ scan'.pc = "for") => scan'.start = scan.i
          /\ (scan.pc = "for" /\ scan'.pc = "for") =>
                 scan'.j > scan.j /\ scan'.start = scan.start
          /\ (scan.pc = "for" /\ scan'.pc = "while") =>
                 scan'.i > scan.start]_vars
    /\ [](scan.depth >= 0)
    /\ <>(scan.pc = "done")

\* A text with an unclosed brace, an unterminated string and a backslash
\* at its end has been scanned to the end, and gave no candidate.
UnbalancedTextScanned ==
    /\ scan.pc = "done"
    /\ scan.text = <<"{", Quote, "}", Backslash>>
    /\ scan.results = <<>>

====
